---------------------------- MODULE Spec2Model ----------------------------
(***************************************************************************)
(* Narrative Genesis input processor: the schema validator                 *)
(* (processors/validator.py over schemas/narrative_genesis_schema.py) and  *)
(* the recovery of the three pillar documents from the generation          *)
(* response (process_narrative.py, _call_openrouter_for_pillars), and the  *)
(* pipeline around them (process_narrative.py, main and                    *)
(* generate_pillars_from_data).                                            *)
(*                                                                         *)
(* Text is a sequence of one-character strings, so that lower(), strip(),  *)
(* len() and the substring tests of the source are computed, not assumed.  *)
(* A JSON / Python value is a tagged record [t, v].                        *)
(***************************************************************************)
EXTENDS Integers, Sequences, FiniteSets, TLC

VARIABLES
    last_report,    \* NarrativeValidator.last_report (<<>> is None)
    ret,            \* what the last validator call returned (<<>>: nothing)
    escaped,        \* TRUE when the last validator call let an exception out
    call,           \* the last validator call: [op, arg]
    schema_ran,     \* whether the last call constructed NarrativeGenesisInput
    warnings,       \* advisory warnings printed by the last call
    first_call,     \* the first validator call of the run
    first_report,   \* the report that first call returned
    ncalls,         \* validator calls made so far
    between,        \* some call after the first one had another input
    rpc,            \* where the recovery call stands
    content,        \* the content of the response's message
    raw,            \* the text being recovered
    pillars,        \* the value a stage obtained (<<>>: none yet)
    first_err,      \* the error of the strict parse (<<>>: none)
    repair_err,     \* the error of the lenient repair (<<>>: none)
    result,         \* how the recovery call ended
    stages,         \* the stages the recovery call went through
    requests,       \* HTTP requests the recovery call issued
    runs,           \* recovery calls made so far
    mpc,            \* where the invocation of the pipeline stands
    entry,          \* its entry point: main or generate_pillars_from_data
    args,           \* the arguments of the invocation
    main_report,    \* report of main: what validate_input returned (<<>> is None)
    exit_status,    \* what main returned
    fs,             \* the files under the output directories
    fs_start,       \* fs when the invocation began
    fs_dist,        \* fs when distribution had ended
    gen,            \* how the generation stage went
    invocations,    \* invocations made so far
    sent,           \* the document handed to the call (<<>>: none)
    distributed,    \* how distribute_configurations ended, if it ran
    form,           \* the contents of the form of the UI
    validation_result,  \* st.session_state.validation_result (<<>> is None)
    validated_from, \* the form contents validation_result was computed from
    updated_items,  \* a list of the form, as create_dynamic_list returned it
    items_before,   \* the list that call of create_dynamic_list was given
    clicked         \* the button of the list clicked in that run

vvars == <<last_report, ret, escaped, call, schema_ran, warnings, first_call,
           first_report, ncalls, between>>
rvars == <<rpc, content, raw, pillars, first_err, repair_err, result, stages,
           requests, runs>>
lvars == <<updated_items, items_before, clicked>>
uvars == <<form, validation_result, validated_from, lvars>>
mvars == <<mpc, entry, args, main_report, exit_status, fs, fs_start, fs_dist, gen,
           invocations, sent, distributed, uvars>>
vars == <<vvars, rvars, mvars>>

----------------------------------------------------------------------------
(* Bounds *)

MaxCalls == 3
MaxRuns == 2
MaxInvocations == 1
MaxItems == 3

----------------------------------------------------------------------------
(* Text *)

UpperChars == <<"A","B","C","D","E","F","G","H","I","J","K","L","M",
                "N","O","P","Q","R","S","T","U","V","W","X","Y","Z">>
LowerChars == <<"a","b","c","d","e","f","g","h","i","j","k","l","m",
                "n","o","p","q","r","s","t","u","v","w","x","y","z">>

LowerChar(c) ==
    IF \E i \in 1..Len(UpperChars) : UpperChars[i] = c
    THEN LowerChars[CHOOSE i \in 1..Len(UpperChars) : UpperChars[i] = c]
    ELSE c

\* str.lower()
Lower(s) == [i \in 1..Len(s) |-> LowerChar(s[i])]

\* sub in s
Contains(s, sub) ==
    \E i \in 0..(Len(s) - Len(sub)) : SubSeq(s, i + 1, i + Len(sub)) = sub

IsSpace(c) == c \in {" ", "\t", "\n", "\r"}

\* str.strip()
Strip(s) ==
    IF \A i \in 1..Len(s) : IsSpace(s[i]) THEN <<>>
    ELSE LET a == CHOOSE i \in 1..Len(s) :
                     /\ ~IsSpace(s[i])
                     /\ \A j \in 1..(i - 1) : IsSpace(s[j])
             b == CHOOSE i \in 1..Len(s) :
                     /\ ~IsSpace(s[i])
                     /\ \A j \in (i + 1)..Len(s) : IsSpace(s[j])
         IN  SubSeq(s, a, b)

\* s[:n]
Prefix(s, n) == SubSeq(s, 1, IF Len(s) < n THEN Len(s) ELSE n)

s_raw == <<"r","a","w">>
s_Raw == <<"R","a","w">>
s_RAW == <<"R","A","W">>
s_calm == <<"c","a","l","m">>
s_formal == <<"f","o","r","m","a","l">>
s_sarcastic == <<"s","a","r","c","a","s","t","i","c">>
s_unfiltered == <<"u","n","f","i","l","t","e","r","e","d">>
s_rebel == <<"r","e","b","e","l">>
s_TheRebel == <<"T","h","e"," ","R","e","b","e","l">>
s_Sage == <<"S","a","g","e">>
s_gaji == <<"g","a","j","i">>
s_salary == <<"s","a","l","a","r","y">>
s_umr == <<"u","m","r">>
s_debt == <<"d","e","b","t">>
s_ProofLong == <<"U","s","e","d"," ","b","y"," ","1","0",",","0","0","0"," ","t","e","a","m","s"," ","d","a","i","l","y">>
s_ProofShort == <<"F","a","s","t">>
s_PainSalary == <<"S","a","l","a","r","y"," ","t","o","o"," ","l","o","w">>
s_PainOther == <<"b","u","r","n","o","u","t">>
s_DemoIncome == <<"2","4","y","o",","," ","U","M","R"," ","w","a","g","e">>
s_DemoPlain == <<"2","4","y","o"," ","w","o","r","k","e","r">>
s_Allowed == <<"A","l","l","o","w","e","d">>
s_NotAllowed == <<"N","o","t"," ","A","l","l","o","w","e","d">>
s_Limited == <<"L","i","m","i","t","e","d">>
s_HallucOk == <<"A","l","l","o","w","e","d",","," ","b","u","t"," ","o","n","l","y"," ","f","o","r"," ","d","y","s","t","o","p","i","a","n"," ","o","u","t","c","o","m","e","s">>
s_HallucBad == <<"S","o","m","e","t","i","m","e","s"," ","m","a","y","b","e">>
s_HallucLower == <<"n","o","t"," ","a","l","l","o","w","e","d">>
s_Low == <<"L","o","w">>
s_Medium == <<"M","e","d","i","u","m">>
s_High == <<"H","i","g","h">>
s_Extreme == <<"E","x","t","r","e","m","e">>
s_Novice == <<"T","h","e"," ","U","n","a","w","a","r","e","/","N","o","v","i","c","e">>
s_Skeptic == <<"T","h","e"," ","S","k","e","p","t","i","c">>
s_Stumbler == <<"T","h","e"," ","S","t","u","m","b","l","e","r">>
s_Convert == <<"T","h","e"," ","C","o","n","v","e","r","t">>
s_TsZ == <<"2","0","2","4","-","0","1","-","1","5","T","1","0",":","3","0",":","0","0","Z">>
s_TsDate == <<"2","0","2","4","-","0","1","-","1","5">>
s_TsBad == <<"y","e","s","t","e","r","d","a","y">>
s_X == <<"X">>
s_Blank == <<" "," ">>
s_Empty == <<>>
s_gg == <<"g","g">>
s_NA == <<"N","/","A">>
s_path == <<"i","n","p","u","t",".","j","s","o","n">>
s_genz == <<"g","e","n","z">>
s_gen_z == <<"g","e","n","_","z">>
s_GENZ == <<"G","E","N","Z","_","W","O","R","K","E","R">>

----------------------------------------------------------------------------
(* Values *)

JNull == [t |-> "null", v |-> 0]
JInt(n) == [t |-> "int", v |-> n]
JStr(s) == [t |-> "str", v |-> s]
JList(xs) == [t |-> "list", v |-> xs]
JDict(f) == [t |-> "dict", v |-> f]

EmptyDict == JDict([k \in {} |-> JNull])

\* One (key |-> value) entry laid over dict d.
With(d, key, val) == JDict((key :> val) @@ d.v)

RECURSIVE Put(_, _, _)
\* d with the value at `path` (a sequence of keys) set to val.
Put(d, path, val) ==
    IF Len(path) = 1 THEN With(d, path[1], val)
    ELSE With(d, path[1], Put(d.v[path[1]], Tail(path), val))

RECURSIVE Del(_, _)
\* d without the key at `path`.
Del(d, path) ==
    IF Len(path) = 1
    THEN JDict([k \in (DOMAIN d.v) \ {path[1]} |-> d.v[k]])
    ELSE With(d, path[1], Del(d.v[path[1]], Tail(path)))

\* An element of an error's loc: a key or a list index (0-based, as in Python).
K(name) == [key |-> name, idx |-> 0 - 1]
I(n) == [key |-> "", idx |-> n]

----------------------------------------------------------------------------
(* The schema (schemas/narrative_genesis_schema.py) *)

MaxSlangLen == 50
SlangPreview == 30
MinProofPointLen == 20

FStr(n, min) == [name |-> n, kind |-> "str", min |-> min, ref |-> "", choices |-> {}]
FOpt(n) == [name |-> n, kind |-> "optstr", min |-> 0, ref |-> "", choices |-> {}]
FLit(n, cs) == [name |-> n, kind |-> "literal", min |-> 0, ref |-> "", choices |-> cs]
FList(n, min) == [name |-> n, kind |-> "liststr", min |-> min, ref |-> "", choices |-> {}]
FModel(n, m) == [name |-> n, kind |-> "model", min |-> 0, ref |-> m, choices |-> {}]

ProductRelations == {s_Novice, s_Skeptic, s_Stumbler, s_Convert}
AutonomyLevels == {s_Low, s_Medium, s_High}

\* The fields of each model class, in declaration order.
Fields(m) ==
    CASE m = "ToneGuardrails" ->
           <<FList("allowed", 1), FList("forbidden", 1)>>
      [] m = "BrandIdentityCore" ->
           <<FStr("product_name", 1), FStr("archetype", 1),
             FStr("core_philosophy", 1),
             FModel("tone_guardrails", "ToneGuardrails")>>
      [] m = "TheWorld" ->
           <<FStr("description", 1), FStr("consensus_reality", 1)>>
      [] m = "TheEnemy" ->
           <<FStr("name", 1), FStr("manifestation", 1), FStr("why_fight_it", 1)>>
      [] m = "TheChangeVehicle" ->
           <<FStr("what_is_new", 1), FStr("mechanism", 1)>>
      [] m = "ThePromisedLand" ->
           <<FStr("vision", 1), FStr("emotional_payoff", 1)>>
      [] m = "TransformationThesis" ->
           <<FStr("from_state", 1), FStr("to_state", 1)>>
      [] m = "StrategicNarrativeFramework" ->
           <<FOpt("comment"),
             FModel("the_world_status_quo", "TheWorld"),
             FModel("the_enemy", "TheEnemy"),
             FModel("the_change_vehicle", "TheChangeVehicle"),
             FModel("the_promised_land", "ThePromisedLand"),
             FModel("transformation_thesis", "TransformationThesis"),
             FList("proof_points", 1)>>
      [] m = "BasePersona" ->
           <<FStr("name", 1), FStr("role", 1), FStr("demographics", 1),
             FLit("product_relation", ProductRelations),
             FOpt("social_setting")>>
      [] m = "LoreSeed" ->
           <<FStr("central_belief", 1), FStr("internal_monologue_style", 1),
             FList("obsession_topics", 1), FStr("affliction", 1),
             FStr("aspiration", 1)>>
      [] m = "EvolutionParameters" ->
           <<FLit("autonomy_level", AutonomyLevels),
             FStr("memory_retention", 1),
             FStr("hallucination_permission", 1)>>
      [] m = "AutonomousCharacterSeed" ->
           <<FOpt("comment"),
             FModel("base_persona", "BasePersona"),
             FModel("lore_seed", "LoreSeed"),
             FModel("evolution_parameters", "EvolutionParameters")>>
      [] m = "LanguageModel" ->
           <<FList("slang_whitelist", 1), FList("cultural_references", 1)>>
      [] m = "TargetAudienceContext" ->
           <<FStr("persona_code", 1), FList("pain_points", 1),
             FModel("language_model", "LanguageModel")>>
      [] m = "Meta" ->
           <<FStr("project_name", 0), FStr("version", 0),
             FStr("input_by", 0), FStr("timestamp", 0)>>
      [] m = "NarrativeGenesisInput" ->
           <<FModel("meta", "Meta"),
             FModel("brand_identity_core", "BrandIdentityCore"),
             FModel("strategic_narrative_framework", "StrategicNarrativeFramework"),
             FModel("autonomous_character_seed", "AutonomousCharacterSeed"),
             FModel("target_audience_context", "TargetAudienceContext")>>

\* Config.str_strip_whitespace: set on the root model only.  A model's
\* configuration governs its own fields; a nested model class is validated
\* under its own configuration, and none of them sets the option.
StrStripWhitespace(m) == m = "NarrativeGenesisInput"

----------------------------------------------------------------------------
(* Errors and validator results *)

Msg(text, arg) == [text |-> text, arg |-> arg]
Err(type, loc, msg, input) ==
    [type |-> type, loc |-> loc, msg |-> msg, input |-> input]

Ok(out) == [errs |-> <<>>, out |-> out]
Fail(errs) == [errs |-> errs, out |-> JNull]

\* What a validator function does: return, or raise ValueError(msg).
Return == [raised |-> FALSE, msg |-> Msg("", {})]
Raise(text, arg) == [raised |-> TRUE, msg |-> Msg(text, arg)]

\* check_no_overlap comparing the tones as written, without lower().
check_no_overlap_case_sensitive(self) ==
    LET allowed_set == {self.v["allowed"].v[i].v : i \in 1..Len(self.v["allowed"].v)}
        forbidden_set == {self.v["forbidden"].v[i].v :
                            i \in 1..Len(self.v["forbidden"].v)}
        overlap == allowed_set \cap forbidden_set
    IN  IF overlap # {}
        THEN [raised |-> TRUE,
              msg |-> [text |-> "Tone guardrails overlap detected", arg |-> overlap]]
        ELSE [raised |-> FALSE, msg |-> [text |-> "", arg |-> {}]]

\* ToneGuardrails.check_no_overlap (model validator, mode "after")
check_no_overlap(self) ==
    LET allowed_set == {Lower(self.v["allowed"].v[i].v) :
                            i \in 1..Len(self.v["allowed"].v)}
        forbidden_set == {Lower(self.v["forbidden"].v[i].v) :
                            i \in 1..Len(self.v["forbidden"].v)}
        overlap == allowed_set \cap forbidden_set
    IN  IF overlap # {}
        THEN Raise("Tone guardrails overlap detected", overlap)
        ELSE Return

\* validate_hallucination looking for the literals in any letter case.
validate_hallucination_any_case(v) ==
    LET valid_values == {s_Allowed, s_NotAllowed, s_Limited}
    IN  IF ~(\E valid \in valid_values : Contains(Lower(v.v), Lower(valid)))
        THEN [raised |-> TRUE,
              msg |-> [text |-> "hallucination_permission must contain one of",
                       arg |-> valid_values]]
        ELSE [raised |-> FALSE, msg |-> [text |-> "", arg |-> {}]]

\* EvolutionParameters.validate_hallucination (field validator)
validate_hallucination(v) ==
    LET valid_values == {s_Allowed, s_NotAllowed, s_Limited}
    IN  IF ~(\E valid \in valid_values : Contains(v.v, valid))
        THEN Raise("hallucination_permission must contain one of", valid_values)
        ELSE Return

RECURSIVE validate_slang_from(_, _)
\* The loop of validate_slang from entry i on: the first entry that fails
\* raises, and the entries after it are not looked at.
validate_slang_from(v, i) ==
    IF i > Len(v.v) THEN Return
    ELSE LET slang == v.v[i].v
         IN  IF slang = <<>> \/ Len(Strip(slang)) = 0
             THEN Raise("Slang whitelist cannot contain empty strings", {})
             ELSE IF Len(slang) > MaxSlangLen
             THEN Raise("Slang entry too long", {Prefix(slang, SlangPreview)})
             ELSE validate_slang_from(v, i + 1)

\* LanguageModel.validate_slang (field validator)
validate_slang(v) == validate_slang_from(v, 1)

IsDigit(c) == c \in {"0","1","2","3","4","5","6","7","8","9"}

\* s has the shape pat, where "d" in pat stands for any digit.
Shaped(s, pat) ==
    /\ Len(s) = Len(pat)
    /\ \A i \in 1..Len(s) : IF pat[i] = "d" THEN IsDigit(s[i]) ELSE s[i] = pat[i]

\* v.replace('Z', '+00:00')
ReplaceZ(s) ==
    LET RECURSIVE R(_)
        R(i) == IF i > Len(s) THEN <<>>
                ELSE (IF s[i] = "Z" THEN <<"+","0","0",":","0","0">> ELSE <<s[i]>>)
                     \o R(i + 1)
    IN  R(1)

\* datetime.fromisoformat accepts the text (the date, date-time and
\* date-time-with-offset layouts).
FromIsoFormatOk(s) ==
    \/ Shaped(s, <<"d","d","d","d","-","d","d","-","d","d">>)
    \/ Shaped(s, <<"d","d","d","d","-","d","d","-","d","d","T",
                   "d","d",":","d","d",":","d","d">>)
    \/ Shaped(s, <<"d","d","d","d","-","d","d","-","d","d","T",
                   "d","d",":","d","d",":","d","d","+","d","d",":","d","d">>)

\* Meta.validate_timestamp (field validator)
validate_timestamp(v) ==
    IF FromIsoFormatOk(ReplaceZ(v.v)) THEN Return
    ELSE Raise("Timestamp must be in ISO format", {v.v})

\* NarrativeGenesisInput.validate_consistency (model validator, mode
\* "after"): it evaluates the Gen Z test and passes in either case.
validate_consistency(self) ==
    LET character_demo ==
            Lower(self.v["autonomous_character_seed"].v["base_persona"].v["demographics"].v)
        target_code == Lower(self.v["target_audience_context"].v["persona_code"].v)
    IN  IF Contains(target_code, s_genz) \/ Contains(target_code, s_gen_z)
        THEN IF ~(\E term \in {<<"2","4">>, <<"2","3">>, <<"2","5">>, <<"2","6">>,
                               <<"g","e","n"," ","z">>, s_genz} :
                     Contains(character_demo, term))
             THEN Return
             ELSE Return
        ELSE Return

\* The field validator registered for field `name` of model m.
FieldValidator(m, name, v) ==
    CASE m = "EvolutionParameters" /\ name = "hallucination_permission" ->
           validate_hallucination(v)
      [] m = "LanguageModel" /\ name = "slang_whitelist" -> validate_slang(v)
      [] m = "Meta" /\ name = "timestamp" -> validate_timestamp(v)
      [] OTHER -> Return

\* The model validator registered for model m.
ModelValidator(m, self) ==
    CASE m = "ToneGuardrails" -> check_no_overlap(self)
      [] m = "NarrativeGenesisInput" -> validate_consistency(self)
      [] OTHER -> Return


----------------------------------------------------------------------------
(* Schema validation: what constructing NarrativeGenesisInput does.        *)
(* Every field of a model is validated, in declaration order, and the      *)
(* errors of all of them are collected; a field validator runs only on a   *)
(* value that passed its type and length checks, a model validator only on *)
(* a model whose fields all passed.                                        *)

\* A str value: type, optional strip, then min_length.
ValidateStr(v, min, loc, strip) ==
    IF v.t # "str"
    THEN Fail(<<Err("string_type", loc, Msg("Input should be a valid string", {}), v)>>)
    ELSE LET s == IF strip THEN Strip(v.v) ELSE v.v
         IN  IF Len(s) < min
             THEN Fail(<<Err("string_too_short", loc,
                             Msg("String should have at least 1 character", {}), v)>>)
             ELSE Ok(JStr(s))

\* Optional[str] = None
ValidateOptStr(v, loc, strip) ==
    IF v.t = "null" THEN Ok(JNull) ELSE ValidateStr(v, 0, loc, strip)

\* Literal[...]
ValidateLiteral(v, choices, loc) ==
    IF v.t = "str" /\ v.v \in choices THEN Ok(v)
    ELSE Fail(<<Err("literal_error", loc, Msg("Input should be one of", choices), v)>>)

RECURSIVE ValidateItems(_, _, _, _)
\* The entries of a List[str] from entry i on: an error per entry that is
\* no string.
ValidateItems(v, i, loc, strip) ==
    IF i > Len(v.v) THEN Ok(JList(<<>>))
    ELSE LET head == ValidateStr(v.v[i], 0, Append(loc, I(i - 1)), strip)
             rest == ValidateItems(v, i + 1, loc, strip)
         IN  [errs |-> head.errs \o rest.errs,
              out |-> IF head.errs = <<>> /\ rest.errs = <<>>
                      THEN JList(<<head.out>> \o rest.out.v) ELSE JNull]

\* List[str] with min_length
ValidateListStr(v, min, loc, strip) ==
    IF v.t # "list"
    THEN Fail(<<Err("list_type", loc, Msg("Input should be a valid list", {}), v)>>)
    ELSE LET items == ValidateItems(v, 1, loc, strip)
         IN  IF items.errs # <<>> THEN Fail(items.errs)
             ELSE IF Len(v.v) < min
             THEN Fail(<<Err("too_short", loc,
                             Msg("List should have at least 1 item", {}), v)>>)
             ELSE items

\* A field validator applied to a value that passed the checks before it.
AfterField(m, name, res, loc, v) ==
    IF res.errs # <<>> THEN res
    ELSE LET fv == FieldValidator(m, name, res.out)
         IN  IF fv.raised
             THEN Fail(<<Err("value_error", loc, fv.msg, v)>>)
             ELSE res

RECURSIVE ValidateModel(_, _, _)
RECURSIVE ValidateFields(_, _, _, _)

\* Field i of model m, read from dict d.
ValidateField(m, f, d, loc) ==
    LET floc == Append(loc, K(f.name))
        strip == StrStripWhitespace(m)
    IN  IF f.name \notin DOMAIN d.v
        THEN IF f.kind = "optstr" THEN Ok(JNull)
             ELSE Fail(<<Err("missing", floc, Msg("Field required", {}), d)>>)
        ELSE LET v == d.v[f.name]
             IN  CASE f.kind = "model" -> ValidateModel(f.ref, v, floc)
                   [] f.kind = "str" ->
                        AfterField(m, f.name, ValidateStr(v, f.min, floc, strip), floc, v)
                   [] f.kind = "optstr" -> ValidateOptStr(v, floc, strip)
                   [] f.kind = "literal" -> ValidateLiteral(v, f.choices, floc)
                   [] f.kind = "liststr" ->
                        AfterField(m, f.name, ValidateListStr(v, f.min, floc, strip), floc, v)

\* The fields of model m from field i on.
ValidateFields(m, d, loc, i) ==
    IF i > Len(Fields(m)) THEN Ok(EmptyDict)
    ELSE LET f == Fields(m)[i]
             head == ValidateField(m, f, d, loc)
             rest == ValidateFields(m, d, loc, i + 1)
         IN  [errs |-> head.errs \o rest.errs,
              out |-> IF head.errs = <<>> /\ rest.errs = <<>>
                      THEN With(rest.out, f.name, head.out) ELSE JNull]

\* A value validated as model m.
ValidateModel(m, val, loc) ==
    IF val.t # "dict"
    THEN Fail(<<Err("model_type", loc,
                    Msg("Input should be a valid dictionary or instance", {}), val)>>)
    ELSE LET r == ValidateFields(m, val, loc, 1)
         IN  IF r.errs # <<>> THEN Fail(r.errs)
             ELSE LET mv == ModelValidator(m, r.out)
                  IN  IF mv.raised
                      THEN Fail(<<Err("value_error", loc, mv.msg, val)>>)
                      ELSE r

----------------------------------------------------------------------------
(* Inputs: a valid document and the documents obtained from it by changing *)
(* the fields the validation rules read.                                   *)

SX == JStr(s_X)
Strs(xs) == JList([i \in 1..Len(xs) |-> JStr(xs[i])])

\* A slang entry one character over the limit.
s_LongSlang == [i \in 1..(MaxSlangLen + 1) |-> "x"]

BaseDoc ==
    JDict(
      ("meta" :> JDict(("project_name" :> SX) @@ ("version" :> SX)
                       @@ ("input_by" :> SX) @@ ("timestamp" :> JStr(s_TsZ))))
   @@ ("brand_identity_core" :>
         JDict(("product_name" :> SX) @@ ("archetype" :> JStr(s_Sage))
               @@ ("core_philosophy" :> SX)
               @@ ("tone_guardrails" :>
                     JDict(("allowed" :> Strs(<<s_raw>>))
                           @@ ("forbidden" :> Strs(<<s_formal>>))))))
   @@ ("strategic_narrative_framework" :>
         JDict(("the_world_status_quo" :>
                     JDict(("description" :> SX) @@ ("consensus_reality" :> SX)))
               @@ ("the_enemy" :>
                     JDict(("name" :> SX) @@ ("manifestation" :> SX)
                           @@ ("why_fight_it" :> SX)))
               @@ ("the_change_vehicle" :>
                     JDict(("what_is_new" :> SX) @@ ("mechanism" :> SX)))
               @@ ("the_promised_land" :>
                     JDict(("vision" :> SX) @@ ("emotional_payoff" :> SX)))
               @@ ("transformation_thesis" :>
                     JDict(("from_state" :> SX) @@ ("to_state" :> SX)))
               @@ ("proof_points" :> Strs(<<s_ProofLong>>))))
   @@ ("autonomous_character_seed" :>
         JDict(("base_persona" :>
                     JDict(("name" :> SX) @@ ("role" :> SX)
                           @@ ("demographics" :> JStr(s_DemoPlain))
                           @@ ("product_relation" :> JStr(s_Skeptic))))
               @@ ("lore_seed" :>
                     JDict(("central_belief" :> SX)
                           @@ ("internal_monologue_style" :> SX)
                           @@ ("obsession_topics" :> Strs(<<s_X>>))
                           @@ ("affliction" :> SX) @@ ("aspiration" :> SX)))
               @@ ("evolution_parameters" :>
                     JDict(("autonomy_level" :> JStr(s_High))
                           @@ ("memory_retention" :> SX)
                           @@ ("hallucination_permission" :> JStr(s_HallucOk))))))
   @@ ("target_audience_context" :>
         JDict(("persona_code" :> JStr(s_GENZ))
               @@ ("pain_points" :> Strs(<<s_PainOther>>))
               @@ ("language_model" :>
                     JDict(("slang_whitelist" :> Strs(<<s_gg>>))
                           @@ ("cultural_references" :> Strs(<<s_X>>)))))))

P_allowed == <<"brand_identity_core", "tone_guardrails", "allowed">>
P_forbidden == <<"brand_identity_core", "tone_guardrails", "forbidden">>
P_product_name == <<"brand_identity_core", "product_name">>
P_archetype == <<"brand_identity_core", "archetype">>
P_autonomy == <<"autonomous_character_seed", "evolution_parameters", "autonomy_level">>
P_memory == <<"autonomous_character_seed", "evolution_parameters", "memory_retention">>
P_halluc == <<"autonomous_character_seed", "evolution_parameters",
              "hallucination_permission">>
P_demo == <<"autonomous_character_seed", "base_persona", "demographics">>
P_topics == <<"autonomous_character_seed", "lore_seed", "obsession_topics">>
P_proof == <<"strategic_narrative_framework", "proof_points">>
P_pain == <<"target_audience_context", "pain_points">>
P_slang == <<"target_audience_context", "language_model", "slang_whitelist">>
P_refs == <<"target_audience_context", "language_model", "cultural_references">>
P_project == <<"meta", "project_name">>
P_version == <<"meta", "version">>
P_input_by == <<"meta", "input_by">>
P_timestamp == <<"meta", "timestamp">>

\* Tone lists: disjoint, overlapping in the same case, overlapping in a
\* different case, empty, and holding an entry that is no string.
AllowedSamples ==
    {Strs(<<s_raw>>), Strs(<<s_Raw, s_calm>>), Strs(<<s_calm>>), Strs(<<>>),
     JList(<<JStr(s_raw), JInt(5)>>)}
ForbiddenSamples ==
    {Strs(<<s_formal>>), Strs(<<s_RAW>>), Strs(<<s_calm, s_raw>>)}

ToneInputs ==
    {Put(Put(BaseDoc, P_allowed, a), P_forbidden, f) :
        a \in AllowedSamples, f \in ForbiddenSamples}

SlangSamples ==
    {Strs(<<s_gg>>), Strs(<<s_Empty>>), Strs(<<s_LongSlang>>),
     Strs(<<s_Empty, s_LongSlang>>)}

\* Documents with several violations at once: a missing product_name, an
\* autonomy_level outside the enum, bad slang entries, a tone overlap.
ViolationInputs ==
    {Put(Put(IF keep THEN BaseDoc ELSE Del(BaseDoc, P_product_name),
             P_autonomy, JStr(lvl)), P_slang, sl) :
        keep \in BOOLEAN, lvl \in {s_High, s_Extreme}, sl \in SlangSamples}
    \cup {Put(Put(Del(BaseDoc, P_product_name), P_autonomy, JStr(s_Extreme)),
              P_forbidden, Strs(<<s_RAW>>))}

HallucSamples ==
    {JStr(s_HallucOk), JStr(s_NotAllowed), JStr(s_Limited), JStr(s_HallucBad),
     JStr(s_HallucLower), JStr(s_Empty), JInt(5)}

HallucInputs == {Put(BaseDoc, P_halluc, h) : h \in HallucSamples}

\* Documents with one blank required string.
BlankInputs ==
    {Put(BaseDoc, P_project, JStr(s_Empty)), Put(BaseDoc, P_version, JStr(s_Blank)),
     Put(BaseDoc, P_input_by, JStr(s_Empty)),
     Put(BaseDoc, P_product_name, JStr(s_Empty)),
     Put(BaseDoc, P_product_name, JStr(s_Blank)),
     Put(BaseDoc, P_memory, JStr(s_Blank)),
     Put(BaseDoc, P_proof, Strs(<<s_Empty>>)),
     Put(BaseDoc, P_topics, Strs(<<s_Blank>>)),
     Put(BaseDoc, P_refs, Strs(<<s_X, s_Empty>>)),
     Put(BaseDoc, P_slang, Strs(<<s_Blank>>))}

\* Valid documents that raise each combination of advisory warnings.
AdvisoryInputs ==
    {Put(Put(Put(Put(Put(BaseDoc, P_archetype, JStr(ar)), P_allowed, Strs(<<s_calm>>)),
                 P_proof, Strs(<<s_ProofLong, pp>>)), P_pain, Strs(<<pain>>)),
         P_demo, JStr(demo)) :
        ar \in {s_Sage, s_TheRebel},
        pp \in {s_ProofLong, s_ProofShort}, pain \in {s_PainSalary, s_PainOther},
        demo \in {s_DemoIncome, s_DemoPlain}}
    \cup {Put(Put(BaseDoc, P_archetype, JStr(s_TheRebel)), P_allowed, Strs(<<s_Raw>>))}

\* Other shapes: a bad timestamp, a date-only timestamp, a missing section,
\* a section that is no mapping, an empty mapping, and data that is no
\* mapping at all.
ShapeInputs ==
    {Put(BaseDoc, P_timestamp, JStr(s_TsBad)), Put(BaseDoc, P_timestamp, JStr(s_TsDate)),
     Del(BaseDoc, <<"meta">>), Put(BaseDoc, <<"meta">>, SX),
     Put(BaseDoc, P_proof, SX), EmptyDict, JList(<<>>), JNull}

Inputs ==
    ToneInputs \cup ViolationInputs \cup HallucInputs \cup BlankInputs
        \cup AdvisoryInputs \cup ShapeInputs

\* A valid document that forbids imagination, and holds a key the schema
\* does not know.
NotAllowedDoc == Put(BaseDoc, P_halluc, JStr(s_NotAllowed))
ExtraKeyDoc == With(NotAllowedDoc, "notes", JStr(s_X))

\* What the file at the input path may hold.
Files ==
    {[kind |-> "missing", data |-> JNull], [kind |-> "bad_json", data |-> JNull],
     [kind |-> "unreadable", data |-> JNull]}
    \cup {[kind |-> "json", data |-> d] :
            d \in {BaseDoc, EmptyDict, JList(<<>>), Put(BaseDoc, P_halluc, JStr(s_HallucBad)),
                   ExtraKeyDoc}}

RECURSIVE SetToSeq(_)
\* The elements of a finite set, in some fixed order.
SetToSeq(S) ==
    IF S = {} THEN <<>>
    ELSE LET x == CHOOSE y \in S : TRUE IN <<x>> \o SetToSeq(S \ {x})

\* The inputs, numbered: a call is recorded by the number of its input.
InputSeq == SetToSeq(Inputs)
FileSeq == SetToSeq(Files)

\* The construction of NarrativeGenesisInput from the unpacked data: [kind |-> "ok", data], or the
\* ValidationError with its errors, or the TypeError of ** on a non-mapping.
Construct(data) ==
    IF data.t # "dict"
    THEN [kind |-> "TypeError", errs |-> <<>>, data |-> JNull]
    ELSE LET r == ValidateModel("NarrativeGenesisInput", data, <<>>)
         IN  IF r.errs # <<>>
             THEN [kind |-> "ValidationError", errs |-> r.errs, data |-> JNull]
             ELSE [kind |-> "ok", errs |-> <<>>, data |-> r.out]


\* Every document the calls below are made with, constructed once.
Constructed ==
    [d \in Inputs \cup {f.data : f \in Files} |-> Construct(d)] @@ <<>>

\* NarrativeGenesisInput over the unpacked data
NarrativeGenesisInput(data) == Constructed[data]

----------------------------------------------------------------------------
(* The validator (processors/validator.py) *)

\* ValidationReport.__init__: `errors or []`, data None unless given.
ValidationReport(is_valid, errors, data) ==
    [is_valid |-> is_valid, errors |-> errors, data |-> data]

W_Rebel == "Archetype is 'Rebel' but tone doesn't include rebellious characteristics"
W_Proof == "Some proof points seem too short - consider adding more detail"
W_Salary == "Target audience has salary pain points but character demographics don't mention income/debt"

\* NarrativeValidator._perform_business_logic_checks: the advisory warnings.
perform_business_logic_checks(validated_input) ==
    LET brand == validated_input.v["brand_identity_core"]
        archetype == Lower(brand.v["archetype"].v)
        allowed == brand.v["tone_guardrails"].v["allowed"].v
        allowed_tones == [i \in 1..Len(allowed) |-> Lower(allowed[i].v)]
        proof_points ==
            validated_input.v["strategic_narrative_framework"].v["proof_points"].v
        demo == validated_input.v["autonomous_character_seed"]
                    .v["base_persona"].v["demographics"].v
        pain_points == validated_input.v["target_audience_context"].v["pain_points"].v
        w1 == IF /\ Contains(archetype, s_rebel)
                 /\ ~(\E i \in 1..Len(allowed_tones) :
                          allowed_tones[i] \in {s_sarcastic, s_raw, s_unfiltered})
              THEN <<W_Rebel>> ELSE <<>>
        w2 == IF \E i \in 1..Len(proof_points) :
                     Len(proof_points[i].v) < MinProofPointLen
              THEN <<W_Proof>> ELSE <<>>
        w3 == IF /\ \E i \in 1..Len(pain_points) :
                        \/ Contains(Lower(pain_points[i].v), s_gaji)
                        \/ Contains(Lower(pain_points[i].v), s_salary)
                 /\ ~(\E term \in {s_gaji, s_salary, s_umr, s_debt} :
                          Contains(Lower(demo), term))
              THEN <<W_Salary>> ELSE <<>>
    IN  w1 \o w2 \o w3

\* What a call leaves behind: the report stored in last_report and returned
\* (ret), whether an exception left the call, whether the schema was run,
\* and the warnings printed.
Outcome(report, ran, warns) ==
    [last_report |-> <<report>>, ret |-> <<report>>, escaped |-> FALSE,
     schema_ran |-> ran, warnings |-> warns]

\* validate_from_dict without its `except Exception` clause: the TypeError
\* of a non-mapping leaves the call.
validate_from_dict_no_catch_all(self, data) ==
    LET validated_input == NarrativeGenesisInput(data)
    IN  CASE validated_input.kind = "ok" ->
               Outcome(ValidationReport(TRUE, <<>>, validated_input.data), TRUE,
                       perform_business_logic_checks(validated_input.data))
          [] validated_input.kind = "ValidationError" ->
               Outcome(ValidationReport(FALSE, validated_input.errs, JNull), TRUE, <<>>)
          [] OTHER ->
               [last_report |-> self, ret |-> <<>>, escaped |-> TRUE,
                schema_ran |-> TRUE, warnings |-> <<>>]

\* validate_from_dict appending to the errors of the stored report (an
\* error list shared between reports).
validate_from_dict_shared_errors(self, data) ==
    LET validated_input == NarrativeGenesisInput(data)
        old == IF self = <<>> THEN <<>> ELSE self[1].errors
    IN  CASE validated_input.kind = "ok" ->
               Outcome(ValidationReport(TRUE, <<>>, validated_input.data), TRUE,
                       perform_business_logic_checks(validated_input.data))
          [] validated_input.kind = "ValidationError" ->
               Outcome(ValidationReport(FALSE, old \o validated_input.errs, JNull),
                       TRUE, <<>>)
          [] OTHER ->
               Outcome(ValidationReport(FALSE,
                   old \o <<Err("unexpected_error", <<K("root")>>,
                                Msg("argument after ** must be a mapping", {}),
                                JStr(s_NA))>>,
                   JNull), TRUE, <<>>)

\* validate_from_dict treating an advisory warning as a failure.
validate_from_dict_warnings_block(self, data) ==
    LET validated_input == NarrativeGenesisInput(data)
        warns == perform_business_logic_checks(validated_input.data)
    IN  CASE validated_input.kind = "ok" /\ warns = <<>> ->
               Outcome(ValidationReport(TRUE, <<>>, validated_input.data), TRUE, warns)
          [] validated_input.kind = "ok" ->
               Outcome(ValidationReport(FALSE,
                   [i \in 1..Len(warns) |->
                       Err("business_rule", <<K("root")>>, Msg(warns[i], {}), JStr(s_NA))],
                   JNull), TRUE, warns)
          [] validated_input.kind = "ValidationError" ->
               Outcome(ValidationReport(FALSE, validated_input.errs, JNull), TRUE, <<>>)
          [] OTHER ->
               Outcome(ValidationReport(FALSE,
                   <<Err("unexpected_error", <<K("root")>>,
                         Msg("argument after ** must be a mapping", {}), JStr(s_NA))>>,
                   JNull), TRUE, <<>>)

\* NarrativeValidator.validate_from_dict; self is the stored last_report.
validate_from_dict(self, data) ==
    LET validated_input == NarrativeGenesisInput(data)
    IN  CASE validated_input.kind = "ok" ->
               Outcome(ValidationReport(TRUE, <<>>, validated_input.data), TRUE,
                       perform_business_logic_checks(validated_input.data))
          [] validated_input.kind = "ValidationError" ->
               Outcome(ValidationReport(FALSE,
                   [i \in 1..Len(validated_input.errs) |->
                       Err(validated_input.errs[i].type, validated_input.errs[i].loc,
                           validated_input.errs[i].msg, validated_input.errs[i].input)],
                   JNull), TRUE, <<>>)
          [] OTHER ->
               Outcome(ValidationReport(FALSE,
                   <<Err("unexpected_error", <<K("root")>>,
                         Msg("argument after ** must be a mapping", {}), JStr(s_NA))>>,
                   JNull), TRUE, <<>>)

\* NarrativeValidator.load_json: (success, data, error_message)
load_json(file) ==
    CASE file.kind = "json" ->
           [success |-> TRUE, data |-> file.data, error |-> ""]
      [] file.kind = "missing" ->
           [success |-> FALSE, data |-> JNull, error |-> "File not found"]
      [] file.kind = "bad_json" ->
           [success |-> FALSE, data |-> JNull, error |-> "Invalid JSON syntax"]
      [] OTHER ->
           [success |-> FALSE, data |-> JNull, error |-> "Error loading file"]

\* validate_from_file without the `if not success` return: whatever
\* load_json produced goes on to schema validation.
validate_from_file_no_guard(self, file) == validate_from_dict(self, load_json(file).data)

\* NarrativeValidator.validate_from_file
validate_from_file(self, file) ==
    LET loaded == load_json(file)
    IN  IF ~loaded.success
        THEN Outcome(ValidationReport(FALSE,
                 <<Err("file_loading_error", <<K("file")>>, Msg(loaded.error, {}),
                       JStr(s_path))>>, JNull), FALSE, <<>>)
        ELSE validate_from_dict(self, loaded.data)


----------------------------------------------------------------------------
(* Response recovery (process_narrative.py, _call_openrouter_for_pillars). *)
(* The mappings of this part come out of JSON text, so their keys are text *)
(* (sequences of characters); the envelope of the response keeps the three *)
(* fixed names choices, message and content.                               *)

JBool(b) == [t |-> "bool", v |-> b]
\* A number with a fraction or exponent, or NaN / Infinity, kept as written.
JFloat(s) == [t |-> "float", v |-> s]

Q == "\""

\* s[i], or "" past either end.
At(s, i) == IF i \in 1..Len(s) THEN s[i] ELSE ""

\* The end of the run of characters of Cs that starts at i (i itself when
\* s[i] is not in Cs).
RunEnd(s, i, Cs) ==
    CHOOSE j \in i..(Len(s) + 1) :
        /\ \A k \in i..(j - 1) : s[k] \in Cs
        /\ At(s, j) \notin Cs

StartsWith(s, p) == Len(p) <= Len(s) /\ SubSeq(s, 1, Len(p)) = p
EndsWith(s, p) ==
    Len(p) <= Len(s) /\ SubSeq(s, Len(s) - Len(p) + 1, Len(s)) = p
\* p in s at position i
Here(s, i, p) ==
    i + Len(p) - 1 <= Len(s) /\ SubSeq(s, i, i + Len(p) - 1) = p

\* str.find(c) for one character, 1-based; 0 when c does not occur.
Find(s, c) ==
    IF \E i \in 1..Len(s) : s[i] = c
    THEN CHOOSE i \in 1..Len(s) : s[i] = c /\ \A j \in 1..(i - 1) : s[j] # c
    ELSE 0

\* The last position of c in s; 0 when c does not occur.
FindLast(s, c) ==
    IF \E i \in 1..Len(s) : s[i] = c
    THEN CHOOSE i \in 1..Len(s) :
             s[i] = c /\ \A j \in (i + 1)..Len(s) : s[j] # c
    ELSE 0

Digits == <<"0","1","2","3","4","5","6","7","8","9">>
DigitSet == {Digits[i] : i \in 1..Len(Digits)}
DigitVal(c) == (CHOOSE i \in 1..Len(Digits) : Digits[i] = c) - 1

RECURSIVE Decimal(_)
\* int() of a run of digits
Decimal(ds) ==
    IF ds = <<>> THEN 0
    ELSE 10 * Decimal(SubSeq(ds, 1, Len(ds) - 1)) + DigitVal(ds[Len(ds)])

RECURSIVE DecimalText(_)
\* str() of a natural number
DecimalText(n) ==
    IF n < 10 THEN <<Digits[n + 1]>>
    ELSE DecimalText(n \div 10) \o <<Digits[(n % 10) + 1]>>

s_None == <<"N","o","n","e">>
s_True == <<"T","r","u","e">>
s_False == <<"F","a","l","s","e">>
s_null == <<"n","u","l","l">>
s_true == <<"t","r","u","e">>
s_false == <<"f","a","l","s","e">>
s_NaN == <<"N","a","N">>
s_Infinity == <<"I","n","f","i","n","i","t","y">>
\* The backquote, which a string of this language cannot hold, by name.
Tick == "BACKQUOTE"
s_Fence == <<Tick, Tick, Tick>>
k_pillar2 == <<"p","i","l","l","a","r","2">>
k_pillar3 == <<"p","i","l","l","a","r","3">>
k_pillar4 == <<"p","i","l","l","a","r","4">>

\* for key in ("pillar2", "pillar3", "pillar4")
RequiredKeys == <<k_pillar2, k_pillar3, k_pillar4>>

(* json.loads: the strict parser.  A parse is [ok, val, next], next being   *)
(* the position after the value.  The escapes \b and \uXXXX name characters *)
(* outside the alphabet of the payloads below and are not in Escapes.       *)

NoParse == [ok |-> FALSE, val |-> JNull, next |-> 0]
Parsed(v, n) == [ok |-> TRUE, val |-> v, next |-> n]

JsonWs == {" ", "\t", "\n", "\r"}
SkipWs(s, i) == RunEnd(s, i, JsonWs)

ControlChars == {"\n", "\t", "\r", "\f"}
Escapes ==
    [c \in {Q, "\\", "/", "n", "r", "t", "f"} |->
        CASE c = "n" -> "\n"
          [] c = "r" -> "\r"
          [] c = "t" -> "\t"
          [] c = "f" -> "\f"
          [] OTHER -> c]

RECURSIVE ParseString(_, _, _)
\* The string whose opening quote is just before i; acc is what was read.
ParseString(s, i, acc) ==
    LET c == At(s, i)
    IN  IF c = "" THEN NoParse
        ELSE IF c = Q THEN Parsed(JStr(acc), i + 1)
        ELSE IF c = "\\"
        THEN IF At(s, i + 1) \in DOMAIN Escapes
             THEN ParseString(s, i + 2, Append(acc, Escapes[At(s, i + 1)]))
             ELSE NoParse
        ELSE IF c \in ControlChars THEN NoParse
        ELSE ParseString(s, i + 1, Append(acc, c))

\* -?(0|[1-9]\d*)(\.\d+)?([eE][-+]?\d+)?
ParseNumber(s, i) ==
    LET neg == At(s, i) = "-"
        a == IF neg THEN i + 1 ELSE i
        b == IF At(s, a) = "0" THEN a + 1 ELSE RunEnd(s, a, DigitSet)
        c == IF At(s, b) = "." /\ At(s, b + 1) \in DigitSet
             THEN RunEnd(s, b + 1, DigitSet) ELSE b
        e == IF At(s, c) \in {"e", "E"}
             THEN (IF At(s, c + 1) \in {"+", "-"} THEN c + 2 ELSE c + 1)
             ELSE c
        d == IF e > c /\ At(s, e) \in DigitSet
             THEN RunEnd(s, e, DigitSet) ELSE c
        n == Decimal(SubSeq(s, a, b - 1))
    IN  IF At(s, a) \notin DigitSet THEN NoParse
        ELSE IF d = b THEN Parsed(JInt(IF neg THEN 0 - n ELSE n), b)
        ELSE Parsed(JFloat(SubSeq(s, i, d - 1)), d)

RECURSIVE ParseValue(_, _)
RECURSIVE ParseMembers(_, _, _)
RECURSIVE ParseItems(_, _, _)

\* The members of an object from the key at i on; acc is the mapping so
\* far.  A repeated key keeps its last value.
ParseMembers(s, i, acc) ==
    IF At(s, i) # Q THEN NoParse
    ELSE LET k == ParseString(s, i + 1, <<>>)
         IN  IF ~k.ok THEN NoParse
             ELSE LET c == SkipWs(s, k.next)
                  IN  IF At(s, c) # ":" THEN NoParse
                      ELSE LET v == ParseValue(s, SkipWs(s, c + 1))
                           IN  IF ~v.ok THEN NoParse
                               ELSE LET e == SkipWs(s, v.next)
                                        acc2 == (k.val.v :> v.val) @@ acc
                                    IN  IF At(s, e) = "}"
                                        THEN Parsed(JDict(acc2), e + 1)
                                        ELSE IF At(s, e) = ","
                                        THEN ParseMembers(s, SkipWs(s, e + 1), acc2)
                                        ELSE NoParse

\* The items of an array from the value at i on.
ParseItems(s, i, acc) ==
    LET v == ParseValue(s, i)
    IN  IF ~v.ok THEN NoParse
        ELSE LET e == SkipWs(s, v.next)
                 acc2 == Append(acc, v.val)
             IN  IF At(s, e) = "]" THEN Parsed(JList(acc2), e + 1)
                 ELSE IF At(s, e) = ","
                 THEN ParseItems(s, SkipWs(s, e + 1), acc2)
                 ELSE NoParse

\* The value that starts at i (whitespace already skipped).
ParseValue(s, i) ==
    LET c == At(s, i)
    IN  IF c = Q THEN ParseString(s, i + 1, <<>>)
        ELSE IF c = "{"
        THEN LET j == SkipWs(s, i + 1)
             IN  IF At(s, j) = "}" THEN Parsed(JDict(<<>>), j + 1)
                 ELSE ParseMembers(s, j, <<>>)
        ELSE IF c = "["
        THEN LET j == SkipWs(s, i + 1)
             IN  IF At(s, j) = "]" THEN Parsed(JList(<<>>), j + 1)
                 ELSE ParseItems(s, j, <<>>)
        ELSE IF Here(s, i, s_null) THEN Parsed(JNull, i + 4)
        ELSE IF Here(s, i, s_true) THEN Parsed(JBool(TRUE), i + 4)
        ELSE IF Here(s, i, s_false) THEN Parsed(JBool(FALSE), i + 5)
        ELSE IF Here(s, i, s_NaN) THEN Parsed(JFloat(s_NaN), i + 3)
        ELSE IF Here(s, i, s_Infinity) THEN Parsed(JFloat(s_Infinity), i + 8)
        ELSE IF c = "-" /\ Here(s, i + 1, s_Infinity)
        THEN Parsed(JFloat(<<"-">> \o s_Infinity), i + 9)
        ELSE ParseNumber(s, i)

\* json.loads(s): one value, whitespace around it, nothing else.
JsonLoads(s) ==
    LET v == ParseValue(s, SkipWs(s, 1))
    IN  IF v.ok /\ SkipWs(s, v.next) = Len(s) + 1 THEN v ELSE NoParse

RECURSIVE PyRepr(_)
RECURSIVE JoinRepr(_, _)
RECURSIVE JoinItems(_, _)

\* repr(xs[i]), repr(xs[i+1]), ... joined by ", "
JoinRepr(xs, i) ==
    IF i > Len(xs) THEN <<>>
    ELSE PyRepr(xs[i])
            \o (IF i < Len(xs) THEN <<",", " ">> ELSE <<>>)
            \o JoinRepr(xs, i + 1)

\* key: repr(value), ... over the keys ks of mapping d, keys quoted
JoinItems(d, ks) ==
    IF ks = <<>> THEN <<>>
    ELSE <<"'">> \o ks[1] \o <<"'", ":", " ">> \o PyRepr(d[ks[1]])
            \o (IF Len(ks) > 1 THEN <<",", " ">> ELSE <<>>)
            \o JoinItems(d, Tail(ks))

\* repr() of a value that came out of JSON
PyRepr(v) ==
    CASE v.t = "str" -> <<"'">> \o v.v \o <<"'">>
      [] v.t = "null" -> s_None
      [] v.t = "bool" -> IF v.v THEN s_True ELSE s_False
      [] v.t = "int" ->
            IF v.v < 0 THEN <<"-">> \o DecimalText(0 - v.v) ELSE DecimalText(v.v)
      [] v.t = "float" -> v.v
      [] v.t = "list" -> <<"[">> \o JoinRepr(v.v, 1) \o <<"]">>
      [] v.t = "dict" ->
            <<"{">> \o JoinItems(v.v, SetToSeq(DOMAIN v.v)) \o <<"}">>

\* str(content)
PyStr(v) == IF v.t = "str" THEN v.v ELSE PyRepr(v)

\* Lines 313-320: the leading fence line and the trailing fence.
StripFences(text) ==
    IF ~StartsWith(text, s_Fence) THEN text
    ELSE LET first_newline == Find(text, "\n")
             body == IF first_newline # 0
                     THEN SubSeq(text, first_newline + 1, Len(text))
                     ELSE text
         IN  IF EndsWith(body, s_Fence)
             THEN Strip(SubSeq(body, 1, Len(body) - 3))
             ELSE body

\* \s of the regular expressions
ReSpace == {" ", "\t", "\n", "\r", "\f"}

\* The comma at i is matched by ,(\s*[}\]])
TrailingComma(s, i) ==
    s[i] = "," /\ At(s, RunEnd(s, i + 1, ReSpace)) \in {"}", "]"}

RECURSIVE FixFrom(_, _)
FixFrom(s, i) ==
    IF i > Len(s) THEN <<>>
    ELSE (IF TrailingComma(s, i) THEN <<>> ELSE <<s[i]>>) \o FixFrom(s, i + 1)

RECURSIVE FixBracesFrom(_, _)
FixBracesFrom(s, i) ==
    IF i > Len(s) THEN <<>>
    ELSE (IF s[i] = "," /\ At(s, RunEnd(s, i + 1, ReSpace)) = "}"
          THEN <<>> ELSE <<s[i]>>) \o FixBracesFrom(s, i + 1)

\* Line 325 with a pattern that knows the closing brace only.
FixTrailingCommas_braces_only(text) == FixBracesFrom(text, 1)

\* re.sub of line 325: a comma before whitespace and a closing brace or
\* bracket goes, wherever it stands in the text, a string literal included.
FixTrailingCommas(text) == FixFrom(text, 1)

\* re.search(r"\{[\s\S]*\}", raw): from the first { to the last }; <<>> when
\* there is no match.
ExtractObject(text) ==
    LET a == Find(text, "{")
        b == FindLast(text, "}")
    IN  IF a # 0 /\ b > a THEN <<SubSeq(text, a, b)>> ELSE <<>>

\* Lines 310-325: the text handed to the parsers.
Sanitize(value) == FixTrailingCommas(StripFences(Strip(PyStr(value))))

\* strict JSON for the three pillars
t_Good ==
    <<"{","\"","p","i","l","l","a","r","2","\"",":","{","}",",","\"","p",
      "i","l","l","a","r","3","\"",":","{","}",",","\"","p","i","l","l","a",
      "r","4","\"",":","{","}","}">>
\* the same with whitespace and nested content
t_Spaced ==
    <<" ","{","\"","p","i","l","l","a","r","2","\"",":"," ","{","\"","a",
      "\"",":"," ","1","}",","," ","\"","p","i","l","l","a","r","3","\"",
      ":"," ","{","}",","," ","\"","p","i","l","l","a","r","4","\"",":"," ",
      "{","}","}","\n">>
\* strict JSON whose nested string holds a comma before a brace
t_CommaInString ==
    <<"{","\"","p","i","l","l","a","r","2","\"",":","{","\"","a","\"",":",
      "\"","x",",","}","\"","}",",","\"","p","i","l","l","a","r","3","\"",
      ":","{","}",",","\"","p","i","l","l","a","r","4","\"",":","{","}","}">>
\* fenced, with a trailing comma
t_Fenced ==
    <<Tick,Tick,Tick,"j","s","o","n","\n","{","\"","p","i","l","l","a","r","2",
      "\"",":","{","}",",","\"","p","i","l","l","a","r","3","\"",":","{",
      "}",",","\"","p","i","l","l","a","r","4","\"",":","{","}",",","}",
      "\n",Tick,Tick,Tick>>
\* an opening fence line only
t_FenceOpen ==
    <<Tick,Tick,Tick,"\n","{","\"","p","i","l","l","a","r","2","\"",":","{",
      "}",",","\"","p","i","l","l","a","r","3","\"",":","{","}",",","\"",
      "p","i","l","l","a","r","4","\"",":","{","}","}">>
\* a fence and nothing else
t_FenceOnly ==
    <<Tick,Tick,Tick>>
\* strict JSON without pillar4
t_Missing4 ==
    <<"{","\"","p","i","l","l","a","r","2","\"",":","{","}",",","\"","p",
      "i","l","l","a","r","3","\"",":","{","}","}">>
\* strict JSON without pillar2
t_Missing2 ==
    <<"{","\"","p","i","l","l","a","r","3","\"",":","{","}",",","\"","p",
      "i","l","l","a","r","4","\"",":","{","}","}">>
\* the empty object
t_EmptyObject ==
    <<"{","}">>
\* a JSON array
t_Array ==
    <<"[","1",","," ","2","]">>
\* a JSON string
t_Scalar ==
    <<"\"","p","i","l","l","a","r","2","\"">>
\* JSON literals
t_True ==
    <<"t","r","u","e">>
t_Null ==
    <<"n","u","l","l">>
\* the three pillars and one more key
t_Extra ==
    <<"{","\"","p","i","l","l","a","r","2","\"",":","{","}",",","\"","p",
      "i","l","l","a","r","3","\"",":","{","}",",","\"","p","i","l","l","a",
      "r","4","\"",":","{","}",",","\"","n","o","t","e","\"",":","1","}">>
\* the three keys over values that are not objects
t_NonObjects ==
    <<"{","\"","p","i","l","l","a","r","2","\"",":","[","]",",","\"","p",
      "i","l","l","a","r","3","\"",":","1",",","\"","p","i","l","l","a","r",
      "4","\"",":","n","u","l","l","}">>
\* prose around one block
t_Prose ==
    <<"S","u","r","e",":"," ","{","\"","p","i","l","l","a","r","2","\"",":",
      "{","}",",","\"","p","i","l","l","a","r","3","\"",":","{","}",",",
      "\"","p","i","l","l","a","r","4","\"",":","{","}","}"," ","D","o","n",
      "e",".">>
\* a truncated object
t_Truncated ==
    <<"{","\"","p","i","l","l","a","r","2","\"",":","{","}",",","\"","p",
      "i","l","l","a","r","3","\"",":","{","}",",","\"","p","i","l","l","a",
      "r","4","\"",":","{">>
\* no JSON at all
t_Garbage ==
    <<"h","e","l","l","o">>
\* the empty string
t_Nothing ==
    <<>>

\* Prose before and after a block of JSON.
s_Sure == <<"S", "u", "r", "e", ":", " ">>
s_Done == <<" ", "D", "o", "n", "e", ".">>
Around(block) == s_Sure \o block \o s_Done

\* Strict JSON texts of objects that hold the three required keys.
StrictTexts == {t_Good, t_Spaced, t_CommaInString, t_Extra, t_NonObjects}

\* Text t with a comma put directly before its character i.
InsertComma(t, i) == SubSeq(t, 1, i - 1) \o <<",">> \o SubSeq(t, i, Len(t))

\* The places of the closing braces and brackets of t.
Closers(t) == {i \in 1..Len(t) : t[i] \in {"}", "]"}}

\* Fence lines a model puts around its JSON.
FenceOpeners == {s_Fence \o <<"\n">>, s_Fence \o <<"j", "s", "o", "n", "\n">>}
FenceClosers == {<<"\n">> \o s_Fence, s_Fence, <<"\n">> \o s_Fence \o <<"\n">>}

\* Every strict text, one trailing comma added, inside fences.
FencedPayloads ==
    UNION {{op \o InsertComma(t, i) \o cl :
                op \in FenceOpeners, cl \in FenceClosers, i \in Closers(t)} :
           t \in StrictTexts}

\* objects whose blocks hold a meta: with two of the keys of the stamp and
\* with a meta that is empty text; with all four keys; with a meta that is
\* text
t_Meta ==
    <<"{","\"","p","i","l","l","a","r","2","\"",":","{","\"","m","e","t","a",
      "\"",":","{","\"","s","c","h","e","m","a","_","v","e","r","s","i","o",
      "n","\"",":","\"","X","\"",",","\"","g","e","n","e","r","a","t","e","d",
      "_","f","o","r","\"",":","n","u","l","l","}","}",",","\"","p","i","l",
      "l","a","r","3","\"",":","{","\"","m","e","t","a","\"",":","\"","\"",
      "}",",","\"","p","i","l","l","a","r","4","\"",":","{","}","}">>
t_Stamped ==
    <<"{","\"","p","i","l","l","a","r","2","\"",":","{","\"","m","e","t","a",
      "\"",":","{","\"","g","e","n","e","r","a","t","e","d","_","f","o","r",
      "\"",":","\"","a","\"",",","\"","s","o","u","r","c","e","_","i","n","p",
      "u","t","\"",":","\"","b","\"",",","\"","g","e","n","e","r","a","t","i",
      "o","n","_","t","i","m","e","s","t","a","m","p","\"",":","\"","c","\"",
      ",","\"","s","c","h","e","m","a","_","v","e","r","s","i","o","n","\"",
      ":","\"","d","\"","}","}",",","\"","p","i","l","l","a","r","3","\"",":",
      "{","\"","m","e","t","a","\"",":","{","\"","g","e","n","e","r","a","t",
      "e","d","_","f","o","r","\"",":","\"","a","\"",",","\"","s","o","u","r",
      "c","e","_","i","n","p","u","t","\"",":","\"","b","\"",",","\"","g","e",
      "n","e","r","a","t","i","o","n","_","t","i","m","e","s","t","a","m","p",
      "\"",":","\"","c","\"",",","\"","s","c","h","e","m","a","_","v","e","r",
      "s","i","o","n","\"",":","\"","d","\"","}","}",",","\"","p","i","l","l",
      "a","r","4","\"",":","{","\"","m","e","t","a","\"",":","{","\"","g","e",
      "n","e","r","a","t","e","d","_","f","o","r","\"",":","\"","a","\"",",",
      "\"","s","o","u","r","c","e","_","i","n","p","u","t","\"",":","\"","b",
      "\"",",","\"","g","e","n","e","r","a","t","i","o","n","_","t","i","m",
      "e","s","t","a","m","p","\"",":","\"","c","\"",",","\"","s","c","h","e",
      "m","a","_","v","e","r","s","i","o","n","\"",":","\"","d","\"","}","}",
      "}">>
t_BadMeta ==
    <<"{","\"","p","i","l","l","a","r","2","\"",":","{","\"","m","e","t","a",
      "\"",":","\"","x","\"","}",",","\"","p","i","l","l","a","r","3","\"",
      ":","{","}",",","\"","p","i","l","l","a","r","4","\"",":","{","}","}">>
MetaTexts == {t_Meta, t_Stamped, t_BadMeta}

PayloadTexts ==
    {t_Good, t_Spaced, t_CommaInString, t_Fenced, t_FenceOpen, t_FenceOnly,
     t_Missing4, t_Missing2, t_EmptyObject, t_Array, t_Scalar, t_Extra,
     t_NonObjects, t_Prose, t_Truncated, t_Garbage, t_Nothing, t_True,
     t_Null}
        \cup FencedPayloads
        \cup {Around(t) : t \in StrictTexts}

\* The content of the message: text, or what response.json() made of a
\* content that was JSON itself.
Contents ==
    {JStr(t) : t \in PayloadTexts}
        \cup {JsonLoads(t).val :
                t \in {t_Good, t_Missing4, t_EmptyObject, t_Extra, t_NonObjects}
                        \cup MetaTexts}
        \cup {JNull, JInt(5), JBool(TRUE), JList(<<JInt(1), JStr(k_pillar2)>>)}

\* data of the response: the envelope around a content, and envelopes that
\* are not of that shape.
Envelope(c) ==
    [t |-> "dict", v |-> [a \in {"choices"} |->
        JList(<<[t |-> "dict", v |-> [b \in {"message"} |->
            [t |-> "dict", v |-> [d \in {"content"} |-> c]]]]>>)]]

BadEnvelopes ==
    {EmptyDict,
     [t |-> "dict", v |-> [a \in {"choices"} |-> JList(<<>>)]],
     [t |-> "dict", v |-> [a \in {"choices"} |-> JList(<<EmptyDict>>)]],
     [t |-> "dict", v |-> [a \in {"choices"} |->
        JList(<<[t |-> "dict", v |-> [b \in {"message"} |-> EmptyDict]]>>)]],
     [t |-> "dict", v |-> [a \in {"choices"} |-> JNull]],
     JList(<<>>)}

\* What requests.post and response.json() can come to.
Responses ==
    {[kind |-> "exception", status |-> 0, data |-> JNull],
     [kind |-> "response", status |-> 500, data |-> JNull],
     [kind |-> "not_json", status |-> 200, data |-> JNull]}
        \cup {[kind |-> "response", status |-> 200, data |-> d] :
                d \in BadEnvelopes \cup {Envelope(c) : c \in Contents}}

\* input_data: a dict, a pydantic model, or neither.
InputKinds == {"dict", "model", "other"}

StatusOk == 200

\* How the function ends: a value returned, or an exception raised.  detail
\* holds the errors that the message of an exception quotes.
NoResult == [kind |-> "none", value |-> JNull, exc |-> "", msg |-> Msg("", <<>>),
             detail |-> <<>>]
ReturnValue(v) ==
    [kind |-> "returned", value |-> v, exc |-> "", msg |-> Msg("", <<>>),
     detail |-> <<>>]
RaiseError(exc, text, arg, detail) ==
    [kind |-> "raised", value |-> JNull, exc |-> exc, msg |-> Msg(text, arg),
     detail |-> detail]

\* value[k]: k a key K(..) or an index I(..)
GetItem(value, k) ==
    CASE value.t = "dict" ->
            IF k.idx = 0 - 1 /\ k.key \in DOMAIN value.v
            THEN [exc |-> "", val |-> value.v[k.key]]
            ELSE [exc |-> "KeyError", val |-> JNull]
      [] value.t = "list" ->
            IF k.idx = 0 - 1 THEN [exc |-> "TypeError", val |-> JNull]
            ELSE IF k.idx < Len(value.v)
            THEN [exc |-> "", val |-> value.v[k.idx + 1]]
            ELSE [exc |-> "IndexError", val |-> JNull]
      [] value.t = "str" ->
            IF k.idx = 0 - 1 THEN [exc |-> "TypeError", val |-> JNull]
            ELSE IF k.idx < Len(value.v)
            THEN [exc |-> "", val |-> JStr(<<value.v[k.idx + 1]>>)]
            ELSE [exc |-> "IndexError", val |-> JNull]
      [] OTHER -> [exc |-> "TypeError", val |-> JNull]

RECURSIVE GetPath(_, _)
\* value[path[1]][path[2]]...: the first exception stops it.
GetPath(value, path) ==
    IF path = <<>> THEN [exc |-> "", val |-> value]
    ELSE LET r == GetItem(value, path[1])
         IN  IF r.exc # "" THEN r ELSE GetPath(r.val, Tail(path))

\* data["choices"][0]["message"]["content"]
ContentPath == <<K("choices"), I(0), K("message"), K("content")>>

\* Lines 274-303: up to the content of the message.  `reached` says the
\* content was read; otherwise result is the exception raised.
RequestContent(input_kind, api_key, response) ==
    LET stop(r, n) == [reached |-> FALSE, content |-> JNull, result |-> r,
                       requests |-> n]
        got == GetPath(response.data, ContentPath)
    IN  IF input_kind = "other"
        THEN stop(RaiseError("TypeError",
                    "Unsupported input_data type for pillar generation",
                    <<>>, <<>>), 0)
        ELSE IF ~api_key
        THEN stop(RaiseError("RuntimeError",
                    "OPENROUTER_API_KEY not set in environment", <<>>, <<>>), 0)
        ELSE IF response.kind = "exception"
        THEN stop(RaiseError("RequestException", "", <<>>, <<>>), 1)
        ELSE IF response.status # StatusOk
        THEN stop(RaiseError("RuntimeError", "OpenRouter call failed: {status}",
                    <<response.status>>, <<>>), 1)
        ELSE IF response.kind = "not_json"
        THEN stop(RaiseError("JSONDecodeError", "", <<>>, <<>>), 1)
        ELSE IF got.exc \in {"KeyError", "IndexError"}
        THEN stop(RaiseError("RuntimeError",
                    "Unexpected OpenRouter response format", <<>>, <<>>), 1)
        ELSE IF got.exc # ""
        THEN stop(RaiseError(got.exc, "", <<>>, <<>>), 1)
        ELSE [reached |-> TRUE, content |-> got.val, result |-> NoResult,
              requests |-> 1]

\* json_repair.loads is a library outside this repository: its answer to a
\* text is any of these values, or an exception.
RepairValues ==
    {JsonLoads(t).val : t \in {t_Good, t_Missing4, t_Extra, t_NonObjects, t_Array}}
        \cup {JStr(<<>>)}

RepairOutcomes(text) ==
    {[ok |-> FALSE, val |-> JNull]}
        \cup {[ok |-> TRUE, val |-> v] :
                v \in RepairValues
                    \cup (IF ExtractObject(text) # <<>>
                             /\ JsonLoads(ExtractObject(text)[1]).ok
                          THEN {JsonLoads(ExtractObject(text)[1]).val}
                          ELSE {})}

\* The first of the required keys that mapping p lacks; 0 when none.
FirstMissing(p) ==
    IF \A i \in 1..Len(RequiredKeys) : RequiredKeys[i] \in DOMAIN p.v THEN 0
    ELSE CHOOSE i \in 1..Len(RequiredKeys) :
            /\ RequiredKeys[i] \notin DOMAIN p.v
            /\ \A j \in 1..(i - 1) : RequiredKeys[j] \in DOMAIN p.v

\* Lines 350-357 with the loop over the required keys left out.
PostCheck_type_only(p) ==
    IF p.t # "dict"
    THEN RaiseError("RuntimeError",
            "Parsed pillars response is not a JSON object.", <<>>, <<>>)
    ELSE ReturnValue(p)

\* The last of the required keys that mapping p lacks; 0 when none.
LastMissing(p) ==
    IF \A i \in 1..Len(RequiredKeys) : RequiredKeys[i] \in DOMAIN p.v THEN 0
    ELSE CHOOSE i \in 1..Len(RequiredKeys) :
            /\ RequiredKeys[i] \notin DOMAIN p.v
            /\ \A j \in (i + 1)..Len(RequiredKeys) : RequiredKeys[j] \in DOMAIN p.v

\* Lines 350-357 with the loop running over the keys from the last one.
PostCheck_reversed(p) ==
    IF p.t # "dict"
    THEN RaiseError("RuntimeError",
            "Parsed pillars response is not a JSON object.", <<>>, <<>>)
    ELSE IF LastMissing(p) # 0
    THEN RaiseError("RuntimeError", "Missing '{key}' in pillars response.",
            RequiredKeys[LastMissing(p)], <<>>)
    ELSE ReturnValue(p)

\* Lines 350-357 with the key loop before the type check: a value that is
\* no mapping is asked for its keys first.
PostCheck_keys_first(p) ==
    IF p.t \in {"list", "str"}
    THEN RaiseError("RuntimeError", "Missing '{key}' in pillars response.",
            RequiredKeys[1], <<>>)
    ELSE IF p.t # "dict"
    THEN RaiseError("TypeError", "", <<>>, <<>>)
    ELSE IF FirstMissing(p) # 0
    THEN RaiseError("RuntimeError", "Missing '{key}' in pillars response.",
            RequiredKeys[FirstMissing(p)], <<>>)
    ELSE ReturnValue(p)

\* Lines 350-357: the type check, the required keys, the return.
PostCheck(p) ==
    IF p.t # "dict"
    THEN RaiseError("RuntimeError",
            "Parsed pillars response is not a JSON object.", <<>>, <<>>)
    ELSE IF FirstMissing(p) # 0
    THEN RaiseError("RuntimeError", "Missing '{key}' in pillars response.",
            RequiredKeys[FirstMissing(p)], <<>>)
    ELSE ReturnValue(p)

E_first == [exc |-> "JSONDecodeError", stage |-> "strict"]
E_repair == [exc |-> "Exception", stage |-> "repair"]
E_extract == [exc |-> "Exception", stage |-> "extract"]

\* Lines 340-348: the error of exhaustion, quoting first_err and repair_err.
RecoveryFailed(first, repair) ==
    RaiseError("RuntimeError",
        "Failed to parse/repair JSON from OpenRouter response. Original error: {first_err}; repair error: {repair_err}",
        <<>>, first \o repair)

----------------------------------------------------------------------------
(* The pipeline (process_narrative.py): main, the entry of the command     *)
(* line, and generate_pillars_from_data, the entry of the UI.  A file is   *)
(* known by who wrote it, in which invocation, and whether it was written  *)
(* to its end.                                                             *)

\* --output (its default, or the directory the pillars go to) and
\* pillars_output_root
d_configs == "output/agent_configs"
d_output == "output"
Dirs == {d_configs, d_output}
pillars_output_root == d_output

\* The files of distribution and of generation, in the order of the writes.
DistNames ==
    <<"output_pillar3_logic_context.json", "scriptwriter_config.json",
      "distribution_report.json">>
PillarNames ==
    <<"output_pillar2_psycho_tags_v2.1.json",
      "output_pillar3_logic_context_v2.1.json",
      "output_pillar4_visual_guide_v2.1.json", "raw_pillars_response.json">>

NameSet(names) == {names[i] : i \in 1..Len(names)}
Paths == [dir : Dirs, name : NameSet(DistNames) \cup NameSet(PillarNames)]

Absent == [by |-> "nobody", run |-> 0, whole |-> FALSE, doc |-> JNull]

\* What the file system does to a stage of n writes: mkdir succeeds or not;
\* write number fail_at fails (0: none), leaving its file as it was or,
\* partial, opened and cut short.
Faults(n) ==
    {f \in [mkdir : BOOLEAN, fail_at : 0..n, partial : BOOLEAN] :
        /\ ~f.mkdir => f.fail_at = 0
        /\ f.fail_at = 0 => ~f.partial}

\* with open(dir / name, "w") ... json.dump(docs[k], f), for each of names
\* in turn, up to the write that fails.
WriteFiles(f, dir, names, docs, by, run, fault) ==
    [p \in DOMAIN f |->
        IF p.dir # dir \/ p.name \notin NameSet(names) THEN f[p]
        ELSE LET k == CHOOSE i \in 1..Len(names) : names[i] = p.name
             IN  IF fault.fail_at = 0 \/ k < fault.fail_at
                 THEN [by |-> by, run |-> run, whole |-> TRUE, doc |-> docs[k]]
                 ELSE IF k = fault.fail_at /\ fault.partial
                 THEN [by |-> by, run |-> run, whole |-> FALSE, doc |-> JNull]
                 ELSE f[p]]

RECURSIVE HasPath(_, _)
\* d is a mapping that holds a value at `path`.
HasPath(d, path) ==
    /\ d.t = "dict"
    /\ path[1] \in DOMAIN d.v
    /\ (Len(path) = 1 \/ HasPath(d.v[path[1]], Tail(path)))

RECURSIVE Get(_, _)
Get(d, path) ==
    IF Len(path) = 1 THEN d.v[path[1]] ELSE Get(d.v[path[1]], Tail(path))

s_allowed == <<"a","l","l","o","w","e","d">>
s_cumulative == <<"c","u","m","u","l","a","t","i","v","e">>

\* generate_scriptwriter_config, lines 153-161: content_generation_params,
\* as far as it is computed from evolution_parameters.
content_generation_params(validated_input) ==
    JDict(("allow_character_evolution" :>
                JBool(Get(validated_input, P_autonomy).v = s_High))
       @@ ("use_cumulative_memory" :>
                JBool(Contains(Lower(Get(validated_input, P_memory).v),
                               s_cumulative)))
       @@ ("can_imagine_scenarios" :>
                JBool(Contains(Lower(Get(validated_input, P_halluc).v),
                               s_allowed))))

\* generate_scriptwriter_config: the configuration, as far as modelled.
generate_scriptwriter_config(validated_input) ==
    JDict("content_generation_params" :>
            content_generation_params(validated_input))

\* distribute_configs: what goes into the three files of DistNames; only
\* the configuration of the scriptwriter is modelled.
DistDocs(validated_input) ==
    <<JNull, generate_scriptwriter_config(validated_input), JNull>>

\* validate_input: None for a file that does not exist, the report of
\* validate_from_file otherwise.
validate_input(file) ==
    IF file.kind = "missing" THEN <<>> ELSE validate_from_file(<<>>, file).ret

\* main, lines 556-562, with a report that is not valid passed on to the
\* generation.
AfterValidation_invalid_goes_on(rep, validate_only) ==
    IF rep = <<>> THEN [next |-> "exit", status |-> <<1>>]
    ELSE IF validate_only THEN [next |-> "exit", status |-> <<0>>]
    ELSE IF ~rep[1].is_valid THEN [next |-> "generate", status |-> <<>>]
    ELSE [next |-> "distribute", status |-> <<>>]

\* main, lines 556-562, with the flag read the wrong way round.
AfterValidation_flag_inverted(rep, validate_only) ==
    IF rep = <<>> \/ ~rep[1].is_valid THEN [next |-> "exit", status |-> <<1>>]
    ELSE IF ~validate_only THEN [next |-> "exit", status |-> <<0>>]
    ELSE [next |-> "distribute", status |-> <<>>]

\* main, lines 556-562: what follows validation.
AfterValidation(rep, validate_only) ==
    IF rep = <<>> \/ ~rep[1].is_valid THEN [next |-> "exit", status |-> <<1>>]
    ELSE IF validate_only THEN [next |-> "exit", status |-> <<0>>]
    ELSE [next |-> "distribute", status |-> <<>>]

\* main, lines 565-577, going on to the generation whatever distribution
\* did.
AfterDistribution_goes_on(raised) == [next |-> "generate", status |-> <<>>]

\* main, lines 565-573: what follows distribution.
AfterDistribution(raised) ==
    IF raised THEN [next |-> "exit", status |-> <<1>>]
    ELSE [next |-> "generate", status |-> <<>>]

\* main, lines 576-592, with an exception of the generation stage made fatal.
AfterGeneration_hard_fail(raised) == IF raised THEN <<1>> ELSE <<0>>

\* main, lines 576-592: the exception of the generation stage is printed,
\* and main returns 0 either way.
AfterGeneration(raised) == <<0>>

k_meta == <<"m", "e", "t", "a">>

\* bool(x) of a JSON value
Truthy(x) ==
    CASE x.t = "null" -> FALSE
      [] x.t = "bool" -> x.v
      [] x.t = "int" -> x.v # 0
      [] x.t = "float" ->
            LET e == RunEnd(x.v, 1, DigitSet \cup {"-", "+", ".", "N", "a", "I",
                                                    "n", "f", "i", "t", "y"})
            IN  \E i \in 1..(e - 1) : x.v[i] \notin {"0", "-", "+", "."}
      [] x.t = "dict" -> DOMAIN x.v # {}
      [] OTHER -> Len(x.v) > 0

\* _stamp_meta, lines 394-401 and 455-462: AttributeError when block has no
\* get (is no mapping), or when its meta is truthy and has no setdefault.
StampRaises(block) ==
    \/ block.t # "dict"
    \/ /\ k_meta \in DOMAIN block.v
       /\ Truthy(block.v[k_meta])
       /\ block.v[k_meta].t # "dict"

\* The keys of meta, the names the blocks are stamped with, and the values
\* of source_input and of the clock.
k_generated_for ==
    <<"g","e","n","e","r","a","t","e","d","_","f","o","r">>
k_source_input ==
    <<"s","o","u","r","c","e","_","i","n","p","u","t">>
k_generation_timestamp ==
    <<"g","e","n","e","r","a","t","i","o","n","_","t","i","m","e","s","t","a",
      "m","p">>
k_schema_version ==
    <<"s","c","h","e","m","a","_","v","e","r","s","i","o","n">>
s_GeneratedFor2 ==
    <<"P","i","l","l","a","r"," ","2"," ","(","H","o","o","k"," ","I","n","t",
      "e","l","l","i","g","e","n","c","e"," ","S","y","s","t","e","m",")">>
s_GeneratedFor3 ==
    <<"P","i","l","l","a","r"," ","3"," ","(","L","o","g","i","c"," ","&"," ",
      "S","c","r","i","p","t"," ","C","o","n","t","e","x","t",")">>
s_GeneratedFor4 ==
    <<"P","i","l","l","a","r"," ","4"," ","(","V","i","s","u","a","l"," ","P",
      "r","o","d","u","c","t","i","o","n"," ","&"," ","Q","A",")">>
s_ui_session ==
    <<"u","i","_","s","e","s","s","i","o","n">>
s_InputPath ==
    <<"i","n",".","j","s","o","n">>
s_SchemaVersion ==
    <<"2",".","1",".","0">>
s_Now ==
    <<"2","0","2","6","-","0","1","-","0","1","T","0","0",":","0","0",":","0",
      "0","+","0","0",":","0","0">>
s_Later ==
    <<"2","0","2","6","-","0","1","-","0","2","T","0","0",":","0","0",":","0",
      "0","+","0","0",":","0","0">>

MetaKeys == <<k_generated_for, k_source_input, k_generation_timestamp,
              k_schema_version>>
GeneratedFor == <<s_GeneratedFor2, s_GeneratedFor3, s_GeneratedFor4>>

\* meta.setdefault(key, default)
SetDefault(meta, key, default) ==
    IF key \in DOMAIN meta.v THEN meta ELSE With(meta, key, default)

\* _stamp_meta with meta[key] = value in place of setdefault
stamp_meta_overwrite(block, generated_for, source_input, timestamp) ==
    LET meta == IF k_meta \in DOMAIN block.v /\ Truthy(block.v[k_meta])
                THEN block.v[k_meta] ELSE EmptyDict
        m1 == With(meta, k_generated_for, JStr(generated_for))
        m2 == With(m1, k_source_input, JStr(source_input))
        m3 == With(m2, k_generation_timestamp, JStr(timestamp))
        m4 == With(m3, k_schema_version, JStr(s_SchemaVersion))
    IN  With(block, k_meta, m4)

\* _stamp_meta, lines 394-401 and 455-462, of a block it does not raise on:
\* meta = block.get("meta") or {}, four setdefault, block["meta"] = meta.
stamp_meta(block, generated_for, source_input, timestamp) ==
    LET meta == IF k_meta \in DOMAIN block.v /\ Truthy(block.v[k_meta])
                THEN block.v[k_meta] ELSE EmptyDict
        m1 == SetDefault(meta, k_generated_for, JStr(generated_for))
        m2 == SetDefault(m1, k_source_input, JStr(source_input))
        m3 == SetDefault(m2, k_generation_timestamp, JStr(timestamp))
        m4 == SetDefault(m3, k_schema_version,
                         IF k_schema_version \in DOMAIN m3.v
                         THEN m3.v[k_schema_version] ELSE JStr(s_SchemaVersion))
    IN  With(block, k_meta, m4)

\* pillars once its three blocks are stamped: _stamp_meta changes the block
\* it is given, and the block is the one pillars holds.
StampedPillars(value, source_input, timestamp) ==
    JDict([k \in DOMAIN value.v |->
            IF \E i \in 1..Len(RequiredKeys) : RequiredKeys[i] = k
            THEN LET i == CHOOSE j \in 1..Len(RequiredKeys) : RequiredKeys[j] = k
                 IN  stamp_meta(value.v[k], GeneratedFor[i], source_input,
                                timestamp)
            ELSE value.v[k]])

\* Lines 403-423 and 464-482: what json.dump is given for the four files of
\* PillarNames: pillar2, pillar3, pillar4 and pillars.
PillarDocs(value, source_input, timestamp) ==
    LET stamped == StampedPillars(value, source_input, timestamp)
    IN  <<stamped.v[k_pillar2], stamped.v[k_pillar3], stamped.v[k_pillar4],
          stamped>>

OutcomeOf(f, called, failed, raised, write_failed, paths, steps) ==
    [fs |-> f, called |-> called, failed |-> failed, raised |-> raised,
     write_failed |-> write_failed, paths |-> paths, steps |-> steps]

\* Lines 389-430 and 451-496: mkdir, the three stamps, the four writes.
\* reraise: the except clause around the writes raises again (line 490) or
\* only prints (line 430).
write_pillars(f, value, root, source_input, run, fault, reraise) ==
    IF ~fault.mkdir
    THEN OutcomeOf(f, TRUE, TRUE, TRUE, FALSE, FALSE, <<"mkdir">>)
    ELSE IF \E i \in 1..Len(RequiredKeys) : StampRaises(value.v[RequiredKeys[i]])
    THEN OutcomeOf(f, TRUE, TRUE, TRUE, FALSE, FALSE, <<"mkdir", "stamp">>)
    ELSE OutcomeOf(WriteFiles(f, root, PillarNames,
                              PillarDocs(value, source_input, s_Now),
                              "generation", run, fault),
                   TRUE, fault.fail_at # 0, fault.fail_at # 0 /\ reraise,
                   fault.fail_at # 0, ~(fault.fail_at # 0 /\ reraise),
                   <<"mkdir", "stamp", "write">>)

\* run_narrative_pipeline, lines 371-380: the input file is read again.
reload_input(file) ==
    IF file.kind = "missing" THEN [success |-> FALSE, data |-> JNull]
    ELSE [success |-> load_json(file).success, data |-> load_json(file).data]

\* run_narrative_pipeline with the directory made before the outcome of the
\* call is looked at.
run_narrative_pipeline_mkdir_first(f, res, root, run, fault) ==
    IF res.kind = "raised"
    THEN OutcomeOf(f, TRUE, TRUE, FALSE, FALSE, FALSE, <<"mkdir">>)
    ELSE [write_pillars(f, res.value, root, s_InputPath, run, fault, FALSE)
            EXCEPT !.paths = FALSE]

\* run_narrative_pipeline from the end of the call on, lines 382-430: its
\* exception is printed; its value is stamped and written.  Nothing is
\* returned.
run_narrative_pipeline(f, res, root, run, fault) ==
    IF res.kind = "raised"
    THEN OutcomeOf(f, TRUE, TRUE, FALSE, FALSE, FALSE, <<>>)
    ELSE [write_pillars(f, res.value, root, s_InputPath, run, fault, FALSE)
            EXCEPT !.paths = FALSE]

\* generate_pillars_from_data, lines 448-496: the exception of the call
\* leaves it; the paths are returned after four writes.
generate_pillars_from_data(f, res, root, run, fault) ==
    IF res.kind = "raised"
    THEN OutcomeOf(f, TRUE, TRUE, TRUE, FALSE, FALSE, <<>>)
    ELSE write_pillars(f, res.value, root, s_ui_session, run, fault, TRUE)

\* The responses the pipeline is run against.
PipelineContents ==
    {JStr(t_Good), JStr(t_Fenced), JStr(t_Missing4), JStr(t_Array),
     JStr(t_NonObjects), JStr(t_Truncated), JStr(t_Garbage),
     JsonLoads(t_Good).val, JsonLoads(t_NonObjects).val}
        \cup {JsonLoads(t).val : t \in MetaTexts}
PipelineResponses ==
    {r \in Responses :
        r.data.t = "dict" /\ DOMAIN r.data.v = {"choices"} =>
            \/ r.data \in BadEnvelopes
            \/ r.data \in {Envelope(c) : c \in PipelineContents}}

\* ui_helpers.validate_input_data: validate_from_dict of a new validator.
validate_input_data(data_dict) == validate_from_dict(<<>>, data_dict).ret

\* The contents the form takes: what initialize_session_state leaves (a
\* required field is blank), and a document that validates.
DefaultForm == Put(BaseDoc, P_input_by, JStr(s_Empty))
FormDocs == {DefaultForm, BaseDoc}

\* The buttons of a list: none clicked, the remove button of entry i, the
\* add button.
NoClick == [button |-> "none", i |-> 0]
Remove(i) == [button |-> "remove", i |-> i]
Add == [button |-> "add", i |-> 0]

\* What is typed into the entries of a list.
EntryTexts == {"", "a", "b"}

\* create_dynamic_list(key, label, items): lst the list given, values what
\* the text inputs hold, click the button clicked.  The loop appends the
\* value of each entry; at the entry whose remove button is clicked (shown
\* when the list has more than one entry) it pops that entry and returns
\* what it has appended so far.
create_dynamic_list(lst, values, click) ==
    IF click.button = "remove" /\ Len(lst) > 1
    THEN SubSeq(values, 1, click.i - 1)
    ELSE IF click.button = "add" THEN Append(values, "")
    ELSE values

NoArgs == [input |-> 0, output |-> d_configs, validate_only |-> FALSE]
NoGen ==
    [called |-> FALSE, failed |-> FALSE, raised |-> FALSE,
     write_failed |-> FALSE, paths |-> FALSE, steps |-> <<>>]

----------------------------------------------------------------------------
(* The validator as a state machine: a run is a sequence of calls on one   *)
(* validator object, or on a fresh one.                                    *)

NoCall == [op |-> "none", id |-> 0]

\* The file a validate_from_file call read, and the data a call validated.
CallFile(c) == FileSeq[c.id]
CallData(c) == IF c.op = "dict" THEN InputSeq[c.id] ELSE FileSeq[c.id].data

InitValidator ==
    /\ last_report = <<>>
    /\ ret = <<>>
    /\ escaped = FALSE
    /\ call = NoCall
    /\ schema_ran = FALSE
    /\ warnings = <<>>
    /\ first_call = NoCall
    /\ first_report = <<>>
    /\ ncalls = 0
    /\ between = FALSE

InitRecover ==
    /\ rpc = "idle"
    /\ content = JNull
    /\ raw = <<>>
    /\ pillars = <<>>
    /\ first_err = <<>>
    /\ repair_err = <<>>
    /\ result = NoResult
    /\ stages = <<>>
    /\ requests = 0
    /\ runs = 0

InitMain ==
    /\ mpc = "idle"
    /\ entry = "none"
    /\ args = NoArgs
    /\ main_report = <<>>
    /\ exit_status = <<>>
    /\ fs = [p \in Paths |-> Absent]
    /\ fs_start = [p \in Paths |-> Absent]
    /\ fs_dist = [p \in Paths |-> Absent]
    /\ gen = NoGen
    /\ invocations = 0
    /\ sent = <<>>
    /\ distributed = "no"
    /\ form = DefaultForm
    /\ validation_result = <<>>
    /\ validated_from = <<>>
    /\ updated_items = <<"">>
    /\ items_before = <<"">>
    /\ clicked = NoClick

Init == InitValidator /\ InitRecover /\ InitMain

\* The bookkeeping of a call c that returned r.
Recorded(c, r) ==
    /\ ncalls' = ncalls + 1
    /\ call' = c
    /\ first_call' = IF ncalls = 0 THEN c ELSE first_call
    /\ first_report' = IF ncalls = 0 THEN r ELSE first_report
    /\ between' = (between \/ (ncalls > 0 /\ c # first_call))

\* validator.validate_from_dict(InputSeq[i])
ValidateFromDict ==
    \E i \in 1..Len(InputSeq) :
        \E o \in {validate_from_dict(last_report, InputSeq[i])} :
            /\ ncalls < MaxCalls
            /\ last_report' = o.last_report
            /\ ret' = o.ret
            /\ escaped' = o.escaped
            /\ schema_ran' = o.schema_ran
            /\ warnings' = o.warnings
            /\ Recorded([op |-> "dict", id |-> i], o.ret)
            /\ UNCHANGED <<rvars, mvars>>

\* validator.validate_from_file(path), the file being FileSeq[i]
ValidateFromFile ==
    \E i \in 1..Len(FileSeq) :
        \E o \in {validate_from_file(last_report, FileSeq[i])} :
            /\ ncalls < MaxCalls
            /\ last_report' = o.last_report
            /\ ret' = o.ret
            /\ escaped' = o.escaped
            /\ schema_ran' = o.schema_ran
            /\ warnings' = o.warnings
            /\ Recorded([op |-> "file", id |-> i], o.ret)
            /\ UNCHANGED <<rvars, mvars>>

\* NarrativeValidator(): the next call is made on a fresh object.
NewValidator ==
    /\ last_report # <<>>
    /\ last_report' = <<>>
    /\ UNCHANGED <<ret, escaped, call, schema_ran, warnings, first_call,
                   first_report, ncalls, between>>
    /\ UNCHANGED <<rvars, mvars>>

NextValidator == ValidateFromDict \/ ValidateFromFile \/ NewValidator

SpecValidator == Init /\ [][NextValidator]_vars

----------------------------------------------------------------------------
(* Recovery as a state machine: one call of _call_openrouter_for_pillars    *)
(* goes from the request through the stages of recovery to its end.         *)

\* Lines 274-303: the call, from input_data to the content of the message.
CallOpenRouter ==
    /\ rpc \in {"idle", "done"}
    /\ runs < MaxRuns
    /\ \E input_kind \in InputKinds, api_key \in BOOLEAN, response \in Responses :
        \E o \in {RequestContent(input_kind, api_key, response)} :
            /\ runs' = runs + 1
            /\ requests' = o.requests
            /\ content' = o.content
            /\ result' = o.result
            /\ rpc' = IF o.reached THEN "content" ELSE "done"
    /\ raw' = <<>>
    /\ pillars' = <<>>
    /\ first_err' = <<>>
    /\ repair_err' = <<>>
    /\ stages' = <<>>
    /\ UNCHANGED <<vvars, mvars>>

\* Lines 306-307: a content that is a mapping is used as it is.
DirectUse ==
    /\ rpc = "content"
    /\ content.t = "dict"
    /\ pillars' = <<content>>
    /\ stages' = Append(stages, "direct")
    /\ rpc' = "check"
    /\ UNCHANGED <<content, raw, first_err, repair_err, result, requests, runs>>
    /\ UNCHANGED <<vvars, mvars>>

\* Lines 310-325: str(), strip(), the fences, the trailing commas.
SanitizeText ==
    /\ rpc = "content"
    /\ content.t # "dict"
    /\ raw' = Sanitize(content)
    /\ stages' = Append(stages, "sanitize")
    /\ rpc' = "strict"
    /\ UNCHANGED <<content, pillars, first_err, repair_err, result, requests,
                   runs>>
    /\ UNCHANGED <<vvars, mvars>>

\* Lines 327-333 with the lenient repair following the strict parse whether
\* it raised or not.
StrictParse_then_repair ==
    /\ rpc = "strict"
    /\ \E p \in {JsonLoads(raw)} :
        /\ pillars' = IF p.ok THEN <<p.val>> ELSE <<>>
        /\ first_err' = IF p.ok THEN <<>> ELSE <<E_first>>
        /\ rpc' = "repair"
    /\ stages' = Append(stages, "strict")
    /\ UNCHANGED <<content, raw, repair_err, result, requests, runs>>
    /\ UNCHANGED <<vvars, mvars>>

\* Lines 327-329: json.loads(raw)
StrictParse ==
    /\ rpc = "strict"
    /\ \E p \in {JsonLoads(raw)} :
        /\ pillars' = IF p.ok THEN <<p.val>> ELSE <<>>
        /\ first_err' = IF p.ok THEN <<>> ELSE <<E_first>>
        /\ rpc' = IF p.ok THEN "check" ELSE "repair"
    /\ stages' = Append(stages, "strict")
    /\ UNCHANGED <<content, raw, repair_err, result, requests, runs>>
    /\ UNCHANGED <<vvars, mvars>>

\* Lines 331-333: json_repair.loads(raw)
LenientRepair ==
    /\ rpc = "repair"
    /\ \E o \in RepairOutcomes(raw) :
        /\ pillars' = IF o.ok THEN <<o.val>> ELSE <<>>
        /\ repair_err' = IF o.ok THEN <<>> ELSE <<E_repair>>
        /\ rpc' = IF o.ok THEN "check" ELSE "extract"
    /\ stages' = Append(stages, "repair")
    /\ UNCHANGED <<content, raw, first_err, result, requests, runs>>
    /\ UNCHANGED <<vvars, mvars>>

\* Lines 335-348: the brace-delimited substring, repaired, or exhaustion.
ExtractAndRepair ==
    /\ rpc = "extract"
    /\ \E match \in {ExtractObject(raw)} :
        IF match = <<>>
        THEN /\ result' = RecoveryFailed(first_err, repair_err)
             /\ pillars' = <<>>
             /\ rpc' = "done"
        ELSE \E o \in RepairOutcomes(match[1]) :
                /\ pillars' = IF o.ok THEN <<o.val>> ELSE <<>>
                /\ result' = IF o.ok THEN result
                             ELSE RecoveryFailed(first_err, repair_err)
                /\ rpc' = IF o.ok THEN "check" ELSE "done"
    /\ stages' = Append(stages, "extract")
    /\ UNCHANGED <<content, raw, first_err, repair_err, requests, runs>>
    /\ UNCHANGED <<vvars, mvars>>

\* Lines 350-357: the post-conditions and the return.
CheckAndReturn ==
    /\ rpc = "check"
    /\ result' = PostCheck(pillars[1])
    /\ stages' = Append(stages, "check")
    /\ rpc' = "done"
    /\ UNCHANGED <<content, raw, pillars, first_err, repair_err, requests, runs>>
    /\ UNCHANGED <<vvars, mvars>>

NextRecover ==
    \/ CallOpenRouter
    \/ DirectUse
    \/ SanitizeText
    \/ StrictParse
    \/ LenientRepair
    \/ ExtractAndRepair
    \/ CheckAndReturn

SpecRecover == Init /\ [][NextRecover]_vars

----------------------------------------------------------------------------
(* The pipeline as a state machine: an invocation of main, or of           *)
(* generate_pillars_from_data, from its arguments to its end.  The call of *)
(* _call_openrouter_for_pillars inside it goes through the stages of       *)
(* recovery above.                                                         *)

\* The recovery variables as a call finds them.
ResetCall ==
    /\ raw' = <<>>
    /\ pillars' = <<>>
    /\ first_err' = <<>>
    /\ repair_err' = <<>>
    /\ stages' = <<>>

\* The call with a second request after a request that failed.
StartCall_retry(input_kind) ==
    /\ \E api_key \in BOOLEAN, response \in PipelineResponses :
        \E o \in {RequestContent(input_kind, api_key, response)} :
            /\ requests' = IF o.requests = 1 /\ ~o.reached THEN 2 ELSE o.requests
            /\ content' = o.content
            /\ result' = o.result
            /\ rpc' = IF o.reached THEN "content" ELSE "done"
    /\ ResetCall
    /\ UNCHANGED runs

\* _call_openrouter_for_pillars(input_data) as far as the content, lines
\* 274-303, inside the pipeline.
StartCall(input_kind) ==
    /\ \E api_key \in BOOLEAN, response \in PipelineResponses :
        \E o \in {RequestContent(input_kind, api_key, response)} :
            /\ requests' = o.requests
            /\ content' = o.content
            /\ result' = o.result
            /\ rpc' = IF o.reached THEN "content" ELSE "done"
    /\ ResetCall
    /\ UNCHANGED runs

\* main, lines 539-562: the arguments, validate_input, and the two early
\* returns.  main runs in a process of its own: a session of the UI that
\* follows it starts from initialize_session_state.
MainValidate ==
    \E i \in 1..Len(FileSeq), out \in Dirs, validate_only \in BOOLEAN :
        \E rep \in {validate_input(FileSeq[i])} :
            \E d \in {AfterValidation(rep, validate_only)} :
                /\ mpc = "idle"
                /\ invocations < MaxInvocations
                /\ args' = [input |-> i, output |-> out,
                            validate_only |-> validate_only]
                /\ main_report' = rep
                /\ mpc' = d.next
                /\ exit_status' = d.status
                /\ entry' = "cli"
                /\ invocations' = invocations + 1
                /\ gen' = NoGen
                /\ fs_start' = fs
                /\ fs_dist' = fs
                /\ rpc' = "idle"
                /\ content' = JNull
                /\ result' = NoResult
                /\ requests' = 0
                /\ ResetCall
                /\ sent' = <<>>
                /\ distributed' = "no"
                /\ form' = DefaultForm
                /\ validation_result' = <<>>
                /\ validated_from' = <<>>
                /\ UNCHANGED <<fs, runs, lvars>>
                /\ UNCHANGED vvars

\* main, lines 565-573: distribute_configurations(report, output_dir), that
\* is distribute_configs: the directory, the two configurations, the report.
MainDistribute ==
    /\ mpc = "distribute"
    /\ \E fault \in Faults(Len(DistNames)) :
        \E d \in {AfterDistribution(~fault.mkdir \/ fault.fail_at # 0)} :
            /\ fs' = IF fault.mkdir
                     THEN WriteFiles(fs, args.output, DistNames,
                                     DistDocs(main_report[1].data),
                                     "distribution", invocations, fault)
                     ELSE fs
            /\ mpc' = d.next
            /\ exit_status' = d.status
            /\ distributed' = IF ~fault.mkdir \/ fault.fail_at # 0
                               THEN "raised" ELSE "ok"
    /\ fs_dist' = fs'
    /\ UNCHANGED <<entry, args, main_report, fs_start, gen, invocations, sent>>
    /\ UNCHANGED <<vvars, rvars, uvars>>

\* run_narrative_pipeline, lines 368-383: the input file is read again and
\* the call is made; without the file, the function returns and main ends.
PipelineCall ==
    /\ mpc = "generate"
    /\ \E loaded \in {reload_input(FileSeq[args.input])} :
        IF ~loaded.success
        THEN /\ mpc' = "exit"
             /\ exit_status' = AfterGeneration(FALSE)
             /\ gen' = [NoGen EXCEPT !.failed = TRUE]
             /\ UNCHANGED <<rvars, sent>>
        ELSE /\ StartCall(IF loaded.data.t = "dict" THEN "dict" ELSE "other")
             /\ sent' = IF requests' > 0 THEN <<loaded.data>> ELSE <<>>
             /\ mpc' = "calling"
             /\ UNCHANGED <<exit_status, gen>>
    /\ UNCHANGED <<entry, args, main_report, fs, fs_start, fs_dist, invocations,
                   distributed>>
    /\ UNCHANGED <<vvars, uvars>>

\* run_narrative_pipeline from the end of the call on, lines 384-430, and
\* main to its end, lines 576-592.
PipelineFinish ==
    /\ mpc = "calling"
    /\ entry = "cli"
    /\ rpc = "done"
    /\ \E fault \in Faults(Len(PillarNames)) :
        \E o \in {run_narrative_pipeline(fs, result, pillars_output_root,
                                         invocations, fault)} :
            /\ fs' = o.fs
            /\ gen' = [called |-> o.called, failed |-> o.failed,
                       raised |-> o.raised, write_failed |-> o.write_failed,
                       paths |-> o.paths, steps |-> o.steps]
            /\ exit_status' = AfterGeneration(o.raised)
    /\ mpc' = "exit"
    /\ UNCHANGED <<entry, args, main_report, fs_start, fs_dist, invocations, sent,
                   distributed>>
    /\ UNCHANGED <<vvars, rvars, uvars>>

\* ui_app.py, lines 88-101: an example or an uploaded document is loaded
\* into the form by load_session_from_dict; a file that is missing or no
\* JSON leaves the form as it is.
UiLoad ==
    /\ mpc = "idle"
    /\ \E loaded \in BOOLEAN, data \in FormDocs :
        form' = IF loaded THEN data ELSE form
    /\ UNCHANGED <<validation_result, validated_from, lvars>>
    /\ UNCHANGED <<mpc, entry, args, main_report, exit_status, fs, fs_start,
                   fs_dist, gen, invocations, sent, distributed>>
    /\ UNCHANGED <<vvars, rvars>>

\* A widget of the form is given another value.
UiEdit ==
    /\ mpc = "idle"
    /\ \E data \in FormDocs \ {form} : form' = data
    /\ UNCHANGED <<validation_result, validated_from, lvars>>
    /\ UNCHANGED <<mpc, entry, args, main_report, exit_status, fs, fs_start,
                   fs_dist, gen, invocations, sent, distributed>>
    /\ UNCHANGED <<vvars, rvars>>

\* ui_app.py, lines 105-109: Reset All Fields deletes every key of the
\* session, and initialize_session_state sets the defaults again.
UiReset ==
    /\ mpc = "idle"
    /\ form' = DefaultForm
    /\ validation_result' = <<>>
    /\ validated_from' = <<>>
    /\ updated_items' = <<"">>
    /\ items_before' = <<"">>
    /\ clicked' = NoClick
    /\ UNCHANGED <<mpc, entry, args, main_report, exit_status, fs, fs_start,
                   fs_dist, gen, invocations, sent, distributed>>
    /\ UNCHANGED <<vvars, rvars>>

\* ui_app.py, lines 608-612: Validate Input builds the document from the
\* form and stores its report.
UiValidate ==
    \E data \in FormDocs :
      \E rep \in {validate_input_data(data)} :
        /\ form = data
        /\ mpc = "idle"
        /\ validation_result' = rep
        /\ validated_from' = <<form>>
        /\ UNCHANGED <<form, lvars>>
        /\ UNCHANGED <<mpc, entry, args, main_report, exit_status, fs, fs_start,
                       fs_dist, gen, invocations, sent, distributed>>
        /\ UNCHANGED <<vvars, rvars>>

\* ui_app.py, lines 623-633: Generate AI Pillars, when a valid report is
\* stored, calls generate_pillars_from_data(validation_result.data,
\* Path("output")), lines 445-448: the call.
UiCall ==
    /\ mpc = "idle"
    /\ invocations < MaxInvocations
    /\ validation_result # <<>>
    /\ validation_result[1].is_valid
    /\ StartCall("model")
    /\ sent' = IF requests' > 0 THEN <<validation_result[1].data>> ELSE <<>>
    /\ args' = [input |-> 0, output |-> d_output, validate_only |-> FALSE]
    /\ entry' = "ui"
    /\ mpc' = "calling"
    /\ invocations' = invocations + 1
    /\ main_report' = <<>>
    /\ exit_status' = <<>>
    /\ gen' = NoGen
    /\ fs_start' = fs
    /\ fs_dist' = fs
    /\ distributed' = "no"
    /\ UNCHANGED <<fs, form, validation_result, validated_from, lvars>>
    /\ UNCHANGED vvars

\* generate_pillars_from_data from the end of the call on, lines 448-496.
UiFinish ==
    /\ mpc = "calling"
    /\ entry = "ui"
    /\ rpc = "done"
    /\ \E fault \in Faults(Len(PillarNames)) :
        \E o \in {generate_pillars_from_data(fs, result, args.output,
                                             invocations, fault)} :
            /\ fs' = o.fs
            /\ gen' = [called |-> o.called, failed |-> o.failed,
                       raised |-> o.raised, write_failed |-> o.write_failed,
                       paths |-> o.paths, steps |-> o.steps]
    /\ mpc' = "exit"
    /\ UNCHANGED <<entry, args, main_report, exit_status, fs_start, fs_dist,
                   invocations, sent, distributed>>
    /\ UNCHANGED <<vvars, rvars, uvars>>

----------------------------------------------------------------------------
(* A list of the form as a state machine: each run of the script calls     *)
(* create_dynamic_list with the list of the session and stores what it     *)
(* returns (ui_app.py, lines 383-388).                                     *)

ListStep(values, click) ==
    /\ updated_items' = create_dynamic_list(updated_items, values, click)
    /\ items_before' = updated_items
    /\ clicked' = click
    /\ UNCHANGED <<form, validation_result, validated_from>>
    /\ UNCHANGED <<mpc, entry, args, main_report, exit_status, fs, fs_start,
                   fs_dist, gen, invocations, sent, distributed>>
    /\ UNCHANGED <<vvars, rvars>>

\* The text of entry i is changed.
ListEdit ==
    \E i \in 1..Len(updated_items), text \in EntryTexts :
        ListStep([updated_items EXCEPT ![i] = text], NoClick)

\* The add button is clicked.
ListAdd ==
    /\ Len(updated_items) < MaxItems
    /\ ListStep(updated_items, Add)

\* The remove button of entry i is clicked.
ListRemove ==
    \E i \in 1..Len(updated_items) :
        /\ Len(updated_items) > 1
        /\ ListStep(updated_items, Remove(i))

NextList ==
    \/ ListEdit
    \/ ListAdd
    \/ ListRemove

SpecList == Init /\ [][NextList]_vars

\* The process of main ends, or the run of the script of the UI does: what
\* the invocation held is gone, the files and the session of the UI stay.
EndRun ==
    /\ mpc = "exit"
    /\ mpc' = "idle"
    /\ entry' = "none"
    /\ args' = NoArgs
    /\ main_report' = <<>>
    /\ exit_status' = <<>>
    /\ gen' = NoGen
    /\ sent' = <<>>
    /\ distributed' = "no"
    /\ fs_start' = fs
    /\ fs_dist' = fs
    /\ rpc' = "idle"
    /\ content' = JNull
    /\ result' = NoResult
    /\ requests' = 0
    /\ ResetCall
    /\ UNCHANGED <<fs, invocations, runs, uvars>>
    /\ UNCHANGED vvars

NextMain ==
    \/ EndRun
    \/ MainValidate
    \/ MainDistribute
    \/ PipelineCall
    \/ PipelineFinish
    \/ UiLoad
    \/ UiEdit
    \/ UiReset
    \/ UiValidate
    \/ UiCall
    \/ UiFinish
    \/ DirectUse
    \/ SanitizeText
    \/ StrictParse
    \/ LenientRepair
    \/ ExtractAndRepair
    \/ CheckAndReturn

SpecMain == Init /\ [][NextMain]_vars


----------------------------------------------------------------------------
(* Properties of the validator *)

Made == ncalls > 0
Returned == Len(ret) = 1
Rep == ret[1]

\* The last call validated a document: validate_from_dict, or
\* validate_from_file on a file that loaded.
DocCall ==
    \/ call.op = "dict"
    \/ call.op = "file" /\ CallFile(call).kind = "json"

IsStrList(v) == v.t = "list" /\ \A i \in 1..Len(v.v) : v.v[i].t = "str"
StrSet(v) == {v.v[i].v : i \in 1..Len(v.v)}

\* Both tone lists of d are lists of strings.
ToneLists(d) ==
    /\ HasPath(d, P_allowed) /\ IsStrList(Get(d, P_allowed))
    /\ HasPath(d, P_forbidden) /\ IsStrList(Get(d, P_forbidden))

\* The tones the two lists share when compared case-insensitively.
SharedTones(d) ==
    {Lower(a) : a \in StrSet(Get(d, P_allowed))}
        \cap {Lower(f) : f \in StrSet(Get(d, P_forbidden))}

L_tone == <<K("brand_identity_core"), K("tone_guardrails")>>

OverlapErrors(r) ==
    {i \in 1..Len(r.errors) :
        /\ r.errors[i].loc = L_tone
        /\ r.errors[i].msg.text = "Tone guardrails overlap detected"}

BadSlang(s) == Strip(s) = <<>> \/ Len(s) > MaxSlangLen

\* The document has the fields the count below reads.
CountedShape(d) ==
    /\ HasPath(d, <<"brand_identity_core">>)
    /\ Get(d, <<"brand_identity_core">>).t = "dict"
    /\ ToneLists(d)
    /\ HasPath(d, P_autonomy)
    /\ HasPath(d, P_slang) /\ IsStrList(Get(d, P_slang))

\* The independent violations among: a missing product_name, an
\* autonomy_level outside the enum, a tone overlap, and each bad entry of
\* the slang whitelist.
ViolationCount(d) ==
    (IF HasPath(d, P_product_name) THEN 0 ELSE 1)
    + (IF Get(d, P_autonomy).t = "str" /\ Get(d, P_autonomy).v \in AutonomyLevels
       THEN 0 ELSE 1)
    + (IF SharedTones(d) # {} THEN 1 ELSE 0)
    + Cardinality({i \in 1..Len(Get(d, P_slang).v) : BadSlang(Get(d, P_slang).v[i].v)})

\* C2: the report holds an error for each independent violation of the
\* input, so at least as many errors as there are violations.
C2_EveryViolationReported ==
    (Made /\ DocCall /\ CountedShape(CallData(call))) =>
        /\ Returned
        /\ Len(Rep.errors) >= ViolationCount(CallData(call))

ValidShape(r) == r.is_valid /\ r.data.t = "dict" /\ r.errors = <<>>
InvalidShape(r) ==
    /\ ~r.is_valid
    /\ r.data = JNull
    /\ Len(r.errors) >= 1
    /\ \A i \in 1..Len(r.errors) :
          DOMAIN r.errors[i] = {"type", "loc", "msg", "input"}

\* C3: every call returns a report that is Valid (document, no errors) or
\* Invalid (no document, at least one error of four parts); no exception
\* leaves the call.
C3_ValidOrInvalid ==
    Made => /\ ~escaped
            /\ Returned
            /\ ValidShape(Rep) \/ InvalidShape(Rep)

\* Data that is no mapping was reported, not raised.
C3_Witness ==
    /\ Made /\ call.op = "dict" /\ CallData(call).t = "list"
    /\ Returned /\ InvalidShape(Rep)
    /\ Rep.errors[1].type = "unexpected_error"

SchemaValidDocs ==
    {d \in Inputs \cup {f.data : f \in Files} : Construct(d).kind = "ok"}

\* C5: a document that passes the schema gets a Valid report with no
\* errors, whichever advisory warnings were raised.
C5_WarningsNeverBlock ==
    (Made /\ DocCall /\ CallData(call) \in SchemaValidDocs) =>
        /\ Returned
        /\ Rep.is_valid
        /\ Rep.errors = <<>>

\* All three warnings were raised on a Valid report.
C5_Witness ==
    /\ Made /\ Returned /\ Rep.is_valid
    /\ warnings = <<W_Rebel, W_Proof, W_Salary>>

\* The documents among the inputs that are valid in every respect other
\* than hallucination_permission: valid once that field is "Allowed".
OtherwiseValidDocs ==
    {d \in Inputs \cup {f.data : f \in Files} :
        /\ HasPath(d, P_halluc)
        /\ Construct(Put(d, P_halluc, JStr(s_Allowed))).kind = "ok"}

OtherwiseValid(d) == d \in OtherwiseValidDocs

HasLiteral(h) ==
    /\ h.t = "str"
    /\ \E lit \in {s_Allowed, s_NotAllowed, s_Limited} : Contains(h.v, lit)

L_halluc == <<K("autonomous_character_seed"), K("evolution_parameters"),
              K("hallucination_permission")>>

\* C6: an otherwise valid document passes exactly when
\* hallucination_permission contains "Allowed", "Not Allowed" or "Limited";
\* otherwise the report holds an error located at that field.
C6_HallucinationLiteral ==
    (Made /\ DocCall /\ OtherwiseValid(CallData(call))) =>
        /\ Returned
        /\ Rep.is_valid <=> HasLiteral(Get(CallData(call), P_halluc))
        /\ ~HasLiteral(Get(CallData(call), P_halluc)) =>
              \E i \in 1..Len(Rep.errors) : Rep.errors[i].loc = L_halluc

\* A value that holds a literal only in lower case was rejected.
C6_Witness ==
    /\ Made /\ call.op = "dict" /\ Returned
    /\ OtherwiseValid(CallData(call))
    /\ Get(CallData(call), P_halluc) = JStr(s_HallucLower)
    /\ ~Rep.is_valid
    /\ Rep.errors[1].type = "value_error" /\ Rep.errors[1].loc = L_halluc

RECURSIVE RequiredStrings(_, _)
\* The required string leaves of validated model m: its str and Literal
\* fields, the entries of its lists, and those of its nested models.
RequiredStrings(m, d) ==
    UNION {LET f == Fields(m)[i]
           IN  CASE f.kind = "str" -> {d.v[f.name].v}
                 [] f.kind = "literal" -> {d.v[f.name].v}
                 [] f.kind = "liststr" -> StrSet(d.v[f.name])
                 [] f.kind = "model" -> RequiredStrings(f.ref, d.v[f.name])
                 [] OTHER -> {}
           : i \in 1..Len(Fields(m))}

\* C7: no Valid report carries a required string that is empty or
\* whitespace only.
C7_NoBlankRequiredString ==
    (Made /\ Returned /\ Rep.is_valid) =>
        \A str \in RequiredStrings("NarrativeGenesisInput", Rep.data) :
            Strip(str) # <<>>

\* C8: validate_from_file on a missing file or on text that is no JSON
\* returns an Invalid report with the single error file_loading_error at
\* ["file"] and does not run the schema; no report of a schema run holds
\* an error of that kind.
C8_FileErrorDistinct ==
    /\ (Made /\ call.op = "file" /\ CallFile(call).kind \in {"missing", "bad_json"}) =>
          /\ Returned
          /\ ~Rep.is_valid
          /\ Len(Rep.errors) = 1
          /\ Rep.errors[1].type = "file_loading_error"
          /\ Rep.errors[1].loc = <<K("file")>>
          /\ ~schema_ran
    /\ (Made /\ Returned /\ schema_ran) =>
          \A i \in 1..Len(Rep.errors) : Rep.errors[i].type # "file_loading_error"

\* Text that is no JSON was reported as a file loading error.
C8_Witness ==
    /\ Made /\ call.op = "file" /\ CallFile(call).kind = "bad_json"
    /\ Returned /\ Rep.errors[1].type = "file_loading_error"
    /\ ~schema_ran

----------------------------------------------------------------------------
(* Properties of recovery *)

\* v is a mapping that has pillar2, pillar3 and pillar4.
HasRequiredKeys(v) ==
    /\ v.t = "dict"
    /\ \A i \in 1..Len(RequiredKeys) : RequiredKeys[i] \in DOMAIN v.v

\* The call has ended by returning.
Recovered == rpc = "done" /\ result.kind = "returned"

\* Stage name s is among the stages the call went through.
Went(s) == \E i \in 1..Len(stages) : stages[i] = s

\* C9: whatever recovery returns, by whichever stage it was obtained, is a
\* mapping with all of pillar2, pillar3 and pillar4; a call that has ended
\* without such a value has raised, and carries no value.
C9_AllKeysOrRaise ==
    /\ result.kind = "returned" =>
        /\ rpc = "done"
        /\ HasRequiredKeys(result.value)
        /\ pillars = <<result.value>>
    /\ rpc = "done" =>
        /\ result.kind \in {"returned", "raised"}
        /\ result.kind = "raised" => result.value.t = "null"
        /\ (pillars = <<>> \/ ~HasRequiredKeys(pillars[1])) =>
                result.kind = "raised"

\* A value obtained at the last stage, from the extracted substring, was
\* returned.
C9_Witness == Recovered /\ Went("extract")

\* C10: what a successful recovery returns has exactly the keys pillar2,
\* pillar3 and pillar4, and each of the three values is an object.
C10_ExactlyThreeObjects ==
    Recovered =>
        /\ DOMAIN result.value.v = {RequiredKeys[i] : i \in 1..Len(RequiredKeys)}
        /\ \A k \in DOMAIN result.value.v : result.value.v[k].t = "dict"

\* Text t is strict JSON for an object with exactly the three required keys.
StrictThree(t) ==
    /\ JsonLoads(t).ok
    /\ JsonLoads(t).val.t = "dict"
    /\ DOMAIN JsonLoads(t).val.v = {RequiredKeys[i] : i \in 1..Len(RequiredKeys)}

\* C11: a payload string that is already strict JSON for an object with
\* exactly the three required keys, whatever its nested strings hold, is
\* recovered as the object its strict parse gives.
C11_StrictJsonUnchanged ==
    (rpc = "done" /\ content.t = "str" /\ StrictThree(content.v)) =>
        /\ result.kind = "returned"
        /\ result.value = JsonLoads(content.v).val

\* C12: a strict JSON object with the three required keys, given a comma
\* directly before one of its closing braces or brackets and wrapped in a
\* leading fence line and a trailing fence, is recovered as an object that
\* holds pillar2, pillar3 and pillar4.
C12_FencedTrailingCommaRecovered ==
    (rpc = "done" /\ content.t = "str" /\ content.v \in FencedPayloads) =>
        /\ result.kind = "returned"
        /\ HasRequiredKeys(result.value)

C12_Witness ==
    /\ Recovered
    /\ content.t = "str"
    /\ content.v \in FencedPayloads
    /\ raw # content.v
    /\ stages = <<"sanitize", "strict", "check">>

\* The call has come to a value, by whichever stage, and has ended.
Ended == rpc = "done" /\ pillars # <<>>

s_MissingKey == "Missing '{key}' in pillars response."
s_NotObject == "Parsed pillars response is not a JSON object."

\* C13: when the value recovery came to is an object that lacks one of
\* pillar2, pillar3, pillar4, the call raises the missing-key error, and the
\* key it names is the first of the three, in that order, that the object
\* lacks; a payload that parsed at the strict stage is no exception.
C13_MissingKeyNamed ==
    (Ended /\ pillars[1].t = "dict" /\ ~HasRequiredKeys(pillars[1])) =>
        /\ result.kind = "raised"
        /\ result.exc = "RuntimeError"
        /\ result.msg.text = s_MissingKey
        /\ \E i \in 1..Len(RequiredKeys) :
            /\ result.msg.arg = RequiredKeys[i]
            /\ RequiredKeys[i] \notin DOMAIN pillars[1].v
            /\ \A j \in 1..(i - 1) : RequiredKeys[j] \in DOMAIN pillars[1].v

\* The empty object, parsed at the strict stage: pillar2 is named though
\* pillar3 and pillar4 are missing too.
C13_Witness ==
    /\ Ended
    /\ stages = <<"sanitize", "strict", "check">>
    /\ pillars[1].t = "dict"
    /\ DOMAIN pillars[1].v = {}
    /\ result.kind = "raised"
    /\ result.msg.arg = k_pillar2

\* C14: when the value a recovery stage came to is no mapping (an array, a
\* string, a number, a boolean, null), the call raises the error that the
\* response is not a JSON object, not the missing-key error, and a value
\* that is returned is always a mapping.
C14_NonObjectRejected ==
    /\ (Ended /\ pillars[1].t # "dict") =>
            /\ result.kind = "raised"
            /\ result.exc = "RuntimeError"
            /\ result.msg.text = s_NotObject
    /\ Recovered => result.value.t = "dict"

\* A strictly parseable array is turned down.
C14_Witness ==
    /\ Ended
    /\ stages = <<"sanitize", "strict", "check">>
    /\ pillars[1].t = "list"
    /\ result.kind = "raised"
    /\ result.msg.text = s_NotObject

\* The blocks that line 325 rewrites before any parser reads them: what
\* json_repair.loads answers for such a payload, it answers about a text
\* that no longer holds the block.
RewrittenBlocks == {b \in StrictTexts : FixTrailingCommas(b) # b}

\* C15: a payload string made of prose, one well-formed block holding the
\* three required keys, and prose again is recovered, and what is returned
\* is the object that the block describes.  Stated for the blocks of
\* RewrittenBlocks, where the end of the call does not turn on the answer of
\* json_repair.loads.
C15_ProseAroundBlockRecovered ==
    \A b \in RewrittenBlocks :
        (rpc = "done" /\ content.t = "str" /\ content.v = Around(b)) =>
            /\ result.kind = "returned"
            /\ result.value = JsonLoads(b).val

\* Every stage of recovery has failed and the call has raised.
Exhausted ==
    /\ rpc = "done"
    /\ result.kind = "raised"
    /\ Went("extract")
    /\ ~Went("check")

\* Error e is among those the message of the raised error quotes.
Quotes(e) == \E i \in 1..Len(result.detail) : result.detail[i] = e

\* C16: when every stage has failed, the error raised quotes the error of the
\* strict parse and the error of the last repair that was tried: that of the
\* brace-delimited substring when the text has one, that of the whole text
\* otherwise.
C16_ExhaustionCarriesBothErrors ==
    Exhausted =>
        /\ Quotes(E_first)
        /\ Quotes(IF ExtractObject(raw) # <<>> THEN E_extract ELSE E_repair)

----------------------------------------------------------------------------
(* Claims on the pipeline *)

\* An invocation of main has ended.
MainEnded == entry = "cli" /\ mpc = "exit"

\* main had no valid report: no file, or a report that is not valid.
NoValidReport == main_report = <<>> \/ ~main_report[1].is_valid

\* The invocation has left the files as it found them, and has issued no
\* request.
NothingDone == fs = fs_start /\ requests = 0 /\ ~gen.called

\* The file main was given.
InputFile == FileSeq[args.input]

\* C17: when the input file of main is missing, is no JSON or fails schema
\* validation, main ends with status 1, and no configuration has been
\* distributed, no generation request issued and no pillar file written.
C17_InvalidInputStopsPipeline ==
    (MainEnded /\ NoValidReport) =>
        /\ exit_status = <<1>>
        /\ NothingDone

\* A file that is JSON and fails schema validation, without the
\* validation-only flag.
C17_Witness ==
    /\ MainEnded
    /\ ~args.validate_only
    /\ InputFile.kind = "json"
    /\ main_report # <<>>
    /\ ~main_report[1].is_valid
    /\ exit_status = <<1>>

\* C18: in validation-only mode main distributes nothing, issues no
\* generation request and writes no file, and its status is 0 exactly when
\* the report is valid.
C18_ValidateOnlyOnlyValidates ==
    (MainEnded /\ args.validate_only) =>
        /\ NothingDone
        /\ (exit_status = <<0>>) <=> ~NoValidReport
        /\ exit_status \in {<<0>>, <<1>>}

\* A valid input in validation-only mode.
C18_Witness ==
    /\ MainEnded
    /\ args.validate_only
    /\ ~NoValidReport
    /\ exit_status = <<0>>
    /\ NothingDone

\* The files of distribution, in the directory main distributed to.
DistPaths == {p \in Paths : p.dir = args.output /\ p.name \in NameSet(DistNames)}

\* C19: when validation and distribution have succeeded and the generation
\* stage fails (the request, its status, the envelope, the recovery, or
\* anything after them), main still ends with status 0 and the files of
\* distribution are as distribution left them.
C19_GenerationFailureNotFatal ==
    (MainEnded /\ gen.failed) =>
        /\ exit_status = <<0>>
        /\ \A p \in DistPaths :
            /\ fs[p] = fs_dist[p]
            /\ fs[p].by = "distribution"
            /\ fs[p].run = invocations
            /\ fs[p].whole

\* A recovery that every stage failed, after a distribution into the
\* directory the pillars go to.
C19_Witness ==
    /\ MainEnded
    /\ gen.failed
    /\ result.kind = "raised"
    /\ Went("extract")
    /\ args.output = pillars_output_root
    /\ exit_status = <<0>>
    /\ \A p \in DistPaths : fs[p].by = "distribution"

\* C20: when a write of one of the four generation files fails, the
\* operation fails: main does not end with its status of success, and
\* generate_pillars_from_data returns no paths.
C20_WriteFailureFails ==
    (mpc = "exit" /\ gen.write_failed) =>
        /\ entry = "cli" => exit_status # <<0>>
        /\ entry = "ui" => ~gen.paths

\* The UI holds a report that is valid.
UiValid == validation_result # <<>> /\ validation_result[1].is_valid

\* C21: the document handed to the generation request is the validated
\* document the schema validator produced in the same invocation, from main
\* and from the UI alike.
C21_ValidatedDocumentSent ==
    sent # <<>> =>
        /\ entry = "cli" =>
                ~NoValidReport /\ sent = <<main_report[1].data>>
        /\ (entry = "ui" /\ mpc = "calling") =>
                UiValid /\ sent = <<validation_result[1].data>>

\* The directory the generation stage of the invocation writes to, and the
\* file of PillarNames[i] in it.
GenRoot == IF entry = "cli" THEN pillars_output_root ELSE args.output
PillarPath(i) == [dir |-> GenRoot, name |-> PillarNames[i]]

\* The generation stage of this invocation wrote the whole of file i.
Written(i) ==
    /\ gen.called
    /\ fs[PillarPath(i)].by = "generation"
    /\ fs[PillarPath(i)].run = invocations
    /\ fs[PillarPath(i)].whole

\* The block of pillar i as recovery returned it, and whether it held a
\* mapping as its meta.
Block(i) == result.value.v[RequiredKeys[i]]
HadMeta(i) == k_meta \in DOMAIN Block(i).v /\ Block(i).v[k_meta].t = "dict"

SameValue(a, b) == a.t = b.t /\ a = b

\* C22: each of the three pillar documents written holds a meta with
\* generated_for, source_input, generation_timestamp and schema_version; a
\* key the block already held keeps the value it had; and stamping the
\* written document again, at another time and for another source, changes
\* nothing.
C22_StampKeepsExisting ==
    \A i \in 1..Len(RequiredKeys) :
        Written(i) =>
            LET doc == fs[PillarPath(i)].doc
            IN  /\ doc.t = "dict"
                /\ k_meta \in DOMAIN doc.v
                /\ doc.v[k_meta].t = "dict"
                /\ \A j \in 1..Len(MetaKeys) :
                        /\ MetaKeys[j] \in DOMAIN doc.v[k_meta].v
                        /\ (HadMeta(i) /\ MetaKeys[j] \in DOMAIN Block(i).v[k_meta].v)
                            => SameValue(doc.v[k_meta].v[MetaKeys[j]],
                                         Block(i).v[k_meta].v[MetaKeys[j]])
                /\ stamp_meta(doc, GeneratedFor[i], s_X, s_Later) = doc

\* The file of pillar 2 written from a block whose meta held schema_version
\* and a null generated_for, and lacked the other two keys.
C22_Witness ==
    /\ Written(1)
    /\ HadMeta(1)
    /\ DOMAIN Block(1).v[k_meta].v = {k_schema_version, k_generated_for}
    /\ fs[PillarPath(1)].doc.v[k_meta].v[k_schema_version] = JStr(s_X)
    /\ fs[PillarPath(1)].doc.v[k_meta].v[k_generated_for].t = "null"
    /\ k_source_input \in DOMAIN fs[PillarPath(1)].doc.v[k_meta].v

\* C30: the file raw_pillars_response.json holds the object of three keys
\* exactly as recovery returned it: stamping does not alter what is written
\* to it.
C30_RawFileAsRecovered ==
    Written(4) => fs[PillarPath(4)].doc = result.value

----------------------------------------------------------------------------
(* Claims on the order of the stages *)

\* The stages of a content that is text, in the order of the code.
TextStages == <<"sanitize", "strict", "repair", "extract">>

\* The stages gone through, the post-conditions left out.
StagesRun == SelectSeq(stages, LAMBDA st : st # "check")

IsPrefix(a, b) == Len(a) <= Len(b) /\ a = SubSeq(b, 1, Len(a))

\* C23: the stages run in the order direct use, sanitization (fences, then
\* trailing commas), strict parse, lenient repair, extraction with repair; a
\* stage runs only when every stage before it has yielded nothing; a content
\* that is a mapping goes through none of the stages of text; and once a
\* stage has yielded a value no other stage runs.
C23_StagesInOrder ==
    /\ StagesRun = <<"direct">> \/ IsPrefix(StagesRun, TextStages)
    /\ (rpc # "idle" /\ content.t = "dict") => IsPrefix(StagesRun, <<"direct">>)
    /\ Went("direct") => content.t = "dict"
    /\ Went("repair") => first_err = <<E_first>>
    /\ Went("extract") => first_err = <<E_first>> /\ repair_err = <<E_repair>>
    /\ Went("check") => stages[Len(stages)] = "check" /\ pillars # <<>>
    /\ pillars # <<>> => rpc \in {"check", "done"}

\* The lenient repair yielded the object after the strict parse had raised:
\* extraction did not run.
C23_Witness ==
    /\ rpc = "done"
    /\ stages = <<"sanitize", "strict", "repair", "check">>
    /\ result.kind = "returned"
    /\ first_err = <<E_first>>

----------------------------------------------------------------------------
(* Claims on the generation stage *)

\* The four files of the generation stage.
PillarPaths == {PillarPath(i) : i \in 1..Len(PillarNames)}

\* The generation stage has made its directory, or tried to.
MadeDir == \E i \in 1..Len(gen.steps) : gen.steps[i] = "mkdir"

\* C24: a generation file is created or changed only after the call has
\* returned and recovery has yielded its object, the steps being call,
\* recovery, stamp, write; when the call or the recovery fails, none of the
\* four files is created or changed and the generation stage does not make
\* the output directory.
C24_WritesOnlyAfterRecovery ==
    /\ (\E p \in PillarPaths : fs[p] # fs_start[p]) =>
            /\ requests = 1
            /\ result.kind = "returned"
            /\ Went("check")
            /\ gen.steps = <<"mkdir", "stamp", "write">>
    /\ (entry # "none" /\ result.kind = "raised") =>
            /\ \A p \in PillarPaths : fs[p] = fs_start[p]
            /\ ~MadeDir

\* The four files written by main after a recovery from text.
C24_Witness ==
    /\ MainEnded
    /\ \A i \in 1..Len(PillarNames) : Written(i)
    /\ gen.steps = <<"mkdir", "stamp", "write">>
    /\ Went("strict")
    /\ requests = 1

\* C25: an invocation of the pipeline issues at most one HTTP request: none
\* follows a timeout, a status that is not success, an envelope that is
\* malformed or a recovery that failed.
C25_AtMostOneRequest ==
    /\ requests <= 1
    /\ (mpc = "exit" /\ gen.failed /\ sent # <<>>) => requests = 1
    /\ requests = 1 => sent # <<>>

\* An invocation ended after a request that was answered with a status
\* that is not success.
C25_Witness ==
    /\ MainEnded
    /\ result.kind = "raised"
    /\ result.msg.text = "OpenRouter call failed: {status}"
    /\ requests = 1
    /\ gen.failed

\* C26: when distribution raises, main ends with status 1 and the
\* generation stage never starts: no request is issued and no pillar file
\* is written.
C26_DistributionFailureStops ==
    (entry = "cli" /\ distributed = "raised") =>
        /\ mpc = "exit"
        /\ exit_status = <<1>>
        /\ requests = 0
        /\ sent = <<>>
        /\ gen = NoGen
        /\ rpc = "idle"
        /\ \A p \in PillarPaths : fs[p] = fs_start[p]

\* Distribution raised at its second write, into the directory the pillars
\* go to, its first file being written.
C26_Witness ==
    /\ MainEnded
    /\ distributed = "raised"
    /\ args.output = pillars_output_root
    /\ fs[[dir |-> args.output, name |-> DistNames[1]]].by = "distribution"
    /\ fs[[dir |-> args.output, name |-> DistNames[2]]].by = "nobody"
    /\ exit_status = <<1>>

----------------------------------------------------------------------------
(* Claims on the configuration of the scriptwriter *)

\* scriptwriter_config.json in the directory main distributed to, and the
\* hallucination_permission of the validated document.
ConfigPath == [dir |-> args.output, name |-> DistNames[2]]
Permission == Get(main_report[1].data, P_halluc).v

\* Distribution of this invocation wrote the whole of the configuration.
ConfigWritten ==
    /\ entry = "cli"
    /\ distributed # "no"
    /\ fs[ConfigPath].by = "distribution"
    /\ fs[ConfigPath].run = invocations
    /\ fs[ConfigPath].whole

\* content_generation_params.can_imagine_scenarios of the file
CanImagine ==
    fs[ConfigPath].doc.v["content_generation_params"].v["can_imagine_scenarios"].v

\* C27: can_imagine_scenarios is true only when hallucination_permission
\* grants the permission: for every value that says "Not Allowed" the flag
\* is false.
C27_NotAllowedCannotImagine ==
    ConfigWritten =>
        /\ CanImagine =>
                Contains(Permission, s_Allowed) /\ ~Contains(Permission, s_NotAllowed)
        /\ Contains(Permission, s_NotAllowed) => ~CanImagine

----------------------------------------------------------------------------
(* Claims on the lists of the form *)

\* lst without its entry i
Without(lst, i) == SubSeq(lst, 1, i - 1) \o SubSeq(lst, i + 1, Len(lst))

\* C28: removing entry i of a list gives the list without that entry, the
\* other entries in their order: each removal shortens the list by exactly
\* one, and the list never becomes empty.
C28_RemoveOneEntry ==
    /\ clicked.button = "remove" =>
            /\ updated_items = Without(items_before, clicked.i)
            /\ Len(updated_items) = Len(items_before) - 1
    /\ updated_items # <<>>

----------------------------------------------------------------------------
(* Claims on the UI *)

\* The UI has invoked generation, and the call is under way.
UiGenerating == entry = "ui" /\ mpc = "calling"

\* C29: whenever the UI invokes generation, the stored validation result is
\* valid and was computed from the contents the form has at that moment:
\* after an edit, an upload, an example load or a reset that follows a
\* validation, generation is not invoked until the form is validated again.
C29_GenerationFromValidatedForm ==
    UiGenerating =>
        /\ UiValid
        /\ validated_from = <<form>>

============================================================================
